---- MODULE Spec2Model ----
(***************************************************************************)
(* Model of ObjectArchive<Key> (include/object_archive.hpp and             *)
(* include/object_archive_impl.hpp): a keyed object store with an LRU      *)
(* buffer in front of one backing file.                                    *)
(*                                                                         *)
(* The backing file is modelled byte by byte (size_t fields are 8 bytes,   *)
(* little endian).  LRU_ holds pointers to the ObjectEntry inside a map    *)
(* node; a pointer is modelled by the key of the node it points to and by  *)
(* whether that node is still allocated.  A pointer whose node was erased  *)
(* is dangling: dereferencing it is undefined behaviour, modelled as a     *)
(* choice between a crash, an endless loop and a read of the stale node.   *)
(***************************************************************************)
EXTENDS Integers, Sequences, FiniteSets, TLC

VARIABLES
  objects_,            \* std::unordered_map<Key, ObjectEntry>
  LRU_,                \* std::list<ObjectEntry const*>, most recent first
  must_rebuild_file_,
  max_buffer_size_,
  buffer_size_,
  filename_,
  temporary_file_,
  disk,                \* the bytes of the file at each path
  status,              \* "ok", "closed" (destroyed), "crash" or "hang"
  last,                \* the last call made and what it returned
  inserted,            \* per key: the payload of its insert, while only
                       \* insert, load, unload and set_buffer_size followed
  overwritten,         \* progress of insert(k, v1); insert(k, v2) [; close; reopen]
  at_close,            \* what each key held when the named file was closed
  calls,               \* number of calls made so far
  plain,               \* "config" after init(named) and set_buffer_size,
                       \* "ops" while only insert and remove followed,
                       \* "read" while only load, unload and
                       \* set_buffer_size followed
  thr,                 \* the worker threads that share the archive, or the
                       \* position inside a rebuild of the backing file
  mpi                  \* the archives of an MPI world and the messages in flight

prog == <<objects_, LRU_, must_rebuild_file_, max_buffer_size_, buffer_size_,
          filename_, temporary_file_, disk, status>>
vars == <<objects_, LRU_, must_rebuild_file_, max_buffer_size_, buffer_size_,
          filename_, temporary_file_, disk, status, last, inserted, overwritten,
          at_close, calls, plain, thr, mpi>>

\* ------------------------------------------------------------------ bounds
NKeys == 2        \* keys are 1..NKeys
MaxLen == 2       \* payloads have 1..MaxLen bytes
MaxByte == 1      \* first byte of a payload is 1..MaxByte
MaxBuf == 2       \* set_buffer_size / unload arguments are 0..MaxBuf
MaxAppend == 3    \* bytes the backing file may hold beyond a compact file
MaxStale == 1     \* dangling pointers LRU_ may hold at once
MaxCalls == 7     \* calls in one behaviour
SizeMod == 16     \* size_t arithmetic is modulo SizeMod

Keys == 1..NKeys
Payloads == { [i \in 1..n |-> b + i - 1] : n \in 1..MaxLen, b \in 1..MaxByte }
BufSizes == 0..MaxBuf

\* --------------------------------------------------------------- constants
SizeT == 8            \* sizeof(size_t)
SerTag == 120         \* first byte of a serialized key
Uninit == -1          \* value of an index_in_file that was never assigned
JunkBytes == {0, 255} \* bytes an invalid read may deliver
UBModes == {"crash", "hang", "stale"}
Paths == {"tmp", "named"}

\* ------------------------------------------------------------ byte helpers
Pow256(i) == IF i = 0 THEN 1 ELSE IF i = 1 THEN 256 ELSE 65536

\* A size_t as written by stream.write((char*)&n, sizeof(size_t)).
EncodeSizeT(n) == [i \in 1..SizeT |-> IF i <= 3 THEN (n \div Pow256(i - 1)) % 256 ELSE 0]

\* A size_t as read by stream.read((char*)&n, sizeof(size_t)).
DecodeSizeT(b) == b[1] + 256 * b[2] + 65536 * b[3]

\* serialize(key): the key behind a one byte stream header.
serialize(k) == <<SerTag, k>>

\* deserialize(str, key): skips the header and reads the key back.
deserialize(s) == s[Len(s)]

Repeat(b, n) == [i \in 1..n |-> b]

\* ---------------------------------------------------------------- pointers
Ptr(k) == [key |-> k, live |-> TRUE]
Stale(k) == [key |-> k, live |-> FALSE]
SeqRemove(s, x) == SelectSeq(s, LAMBDA e : e # x)
NumStale(s) == Len(SelectSeq(s, LAMBDA e : ~e.live))

\* std::unordered_map::erase(key): the node is freed; pointers to it dangle.
MapErase(S, k) ==
  [S EXCEPT !.objects_ = [x \in (DOMAIN S.objects_) \ {k} |-> S.objects_[x]],
            !.LRU_ = [i \in 1..Len(S.LRU_) |->
                        IF S.LRU_[i] = Ptr(k) THEN Stale(k) ELSE S.LRU_[i]]]

\* std::unordered_map::emplace(key, entry): nothing happens when the key is
\* present.  The new node gets a fresh address (r = 0) or the address of a
\* freed node that element r of LRU_ still points to.
MapEmplace(S, k, e, r) ==
  IF k \in DOMAIN S.objects_ THEN S
  ELSE [S EXCEPT !.objects_ = [x \in (DOMAIN S.objects_) \cup {k} |->
                                 IF x = k THEN e ELSE S.objects_[x]],
                 !.LRU_ = [i \in 1..Len(S.LRU_) |->
                             IF i = r THEN Ptr(k) ELSE S.LRU_[i]]]

\* The addresses the allocator can give the node of key k.
Addresses(S, k) ==
  IF k \in DOMAIN S.objects_ THEN {0}
  ELSE {0} \cup { i \in 1..Len(S.LRU_) : ~S.LRU_[i].live }

\* ------------------------------------------------------------ the archive
touch_LRU(S, k) ==
  [S EXCEPT !.LRU_ = <<Ptr(k)>> \o SeqRemove(S.LRU_, Ptr(k))]

\* write_back(iterator)
write_back_it_skips_file(S, k) ==
  LET e == S.objects_[k]
  IN [S EXCEPT !.objects_[k] = [e EXCEPT !.data = <<>>, !.modified = FALSE,
                                         !.index_in_file = Len(S.disk[S.filename_])],
               !.buffer_size_ = (@ - e.size) % SizeMod,
               !.LRU_ = SeqRemove(@, Ptr(k))]

write_back_it(S, k) ==
  LET e == S.objects_[k]
      f == S.disk[S.filename_]
      e1 == IF e.modified
            THEN [e EXCEPT !.index_in_file = Len(f), !.modified = FALSE]
            ELSE e
      e2 == [e1 EXCEPT !.data = <<>>]
  IN [S EXCEPT !.disk[S.filename_] = IF e.modified THEN f \o e.data ELSE f,
               !.must_rebuild_file_ = IF e.modified THEN TRUE ELSE @,
               !.objects_[k] = e2,
               !.buffer_size_ = (@ - e.size) % SizeMod,
               !.LRU_ = SeqRemove(@, Ptr(k))]

\* write_back(Key const&)
write_back(S, k) ==
  IF k \notin DOMAIN S.objects_ THEN S ELSE write_back_it(S, k)

\* The loop of unload(desired_size) when a dereference of a dangling pointer,
\* or LRU_.back() of an empty list, does what ub says.  fuel bounds the
\* iterations: an iteration that changes nothing, or a walk of buffer_size_
\* through all of its values without reaching desired_size, never ends.
RECURSIVE unload_loop(_, _, _, _)
unload_loop(S, d, ub, fuel) ==
  IF ~(S.buffer_size_ > d) THEN S
  ELSE IF fuel = 0 THEN [S EXCEPT !.status = "hang"]
  ELSE IF Len(S.LRU_) = 0
    THEN [S EXCEPT !.status = IF ub = "hang" THEN "hang" ELSE "crash"]
  ELSE LET p == S.LRU_[Len(S.LRU_)]
       IN IF p.live THEN unload_loop(write_back(S, p.key), d, ub, fuel - 1)
          ELSE IF ub # "stale" THEN [S EXCEPT !.status = ub]
          ELSE IF p.key \notin DOMAIN S.objects_ THEN [S EXCEPT !.status = "hang"]
          ELSE unload_loop(write_back(S, p.key), d, ub, fuel - 1)

\* unload(desired_size): the states it can end in.
unload(S, d) ==
  LET fuel == SizeMod + Len(S.LRU_) + 1
      R == unload_loop(S, d, "crash", fuel)
  IN IF R.status = "ok" THEN {R}
     ELSE { unload_loop(S, d, ub, fuel) : ub \in UBModes }

set_buffer_size(S, m) ==
  unload([S EXCEPT !.max_buffer_size_ = m], m)

\* remove(key) without objects_.erase(key).
remove_keeps_entry(S, k) ==
  IF k \notin DOMAIN S.objects_ THEN S
  ELSE LET e == S.objects_[k]
       IN [S EXCEPT !.buffer_size_ = IF Len(e.data) # 0 THEN (@ - e.size) % SizeMod ELSE @,
                    !.objects_[k].data = <<>>,
                    !.LRU_ = SeqRemove(@, Ptr(k)),
                    !.must_rebuild_file_ = TRUE]

\* remove(key) without must_rebuild_file_ = true.
remove_keeps_flag(S, k) ==
  IF k \notin DOMAIN S.objects_ THEN S
  ELSE LET e == S.objects_[k]
           S1 == IF Len(e.data) # 0
                 THEN [S EXCEPT !.buffer_size_ = (@ - e.size) % SizeMod]
                 ELSE S
       IN MapErase(S1, k)

remove(S, k) ==
  IF k \notin DOMAIN S.objects_ THEN S
  ELSE LET e == S.objects_[k]
           S1 == IF Len(e.data) # 0
                 THEN [S EXCEPT !.buffer_size_ = (@ - e.size) % SizeMod]
                 ELSE S
       IN [MapErase(S1, k) EXCEPT !.must_rebuild_file_ = TRUE]

change_key(S, old, new) ==
  IF old \notin DOMAIN S.objects_ THEN {S}
  ELSE LET e == S.objects_[old]
           S1 == MapErase(S, old)
       IN { [touch_LRU(MapEmplace(S1, new, e, r), new)
               EXCEPT !.must_rebuild_file_ = TRUE] : r \in Addresses(S1, new) }

\* insert_raw without the test size > max_buffer_size_.
insert_raw_keeps_oversized(S, k, data, keep_in_buffer) ==
  LET size == Len(data)
      keep == keep_in_buffer
      S1 == remove(S, k)
      e == [data |-> data, index_in_file |-> Uninit, size |-> size, modified |-> TRUE]
      Rest(S2, r) ==
        LET S3 == [S2 EXCEPT !.buffer_size_ = (@ + size) % SizeMod]
            S4 == touch_LRU(MapEmplace(S3, k, e, r), k)
        IN IF ~keep THEN write_back_it(S4, k) ELSE S4
  IN UNION { IF S2.status # "ok" THEN {S2}
             ELSE { Rest(S2, r) : r \in Addresses(S2, k) } :
             S2 \in IF (size + S1.buffer_size_) % SizeMod > S1.max_buffer_size_ /\ keep
                    THEN unload(S1, (S1.max_buffer_size_ - size) % SizeMod)
                    ELSE {S1} }

insert_raw(S, k, data, keep_in_buffer) ==
  LET size == Len(data)
      keep == keep_in_buffer /\ ~(size > S.max_buffer_size_)
      S1 == remove(S, k)
      e == [data |-> data, index_in_file |-> Uninit, size |-> size, modified |-> TRUE]
      Rest(S2, r) ==
        LET S3 == [S2 EXCEPT !.buffer_size_ = (@ + size) % SizeMod]
            S4 == touch_LRU(MapEmplace(S3, k, e, r), k)
        IN IF ~keep THEN write_back_it(S4, k) ELSE S4
  IN UNION { IF S2.status # "ok" THEN {S2}
             ELSE { Rest(S2, r) : r \in Addresses(S2, k) } :
             S2 \in IF (size + S1.buffer_size_) % SizeMod > S1.max_buffer_size_ /\ keep
                    THEN unload(S1, (S1.max_buffer_size_ - size) % SizeMod)
                    ELSE {S1} }

\* stream_.seekg(off); stream_.read(buf, n): the bytes read.  Reading at an
\* offset that was never assigned, or behind the end of the file, leaves
\* whatever the buffer held.
ValidRange(f, off, n) == off # Uninit /\ off + n <= Len(f)
ReadAt(f, off, n) ==
  IF ValidRange(f, off, n) THEN {SubSeq(f, off + 1, off + n)}
  ELSE { Repeat(junk, n) : junk \in JunkBytes }

\* load_raw: the archive after the call, the returned size and the bytes
\* left in the caller's string.
load_raw(S, k, keep_in_buffer) ==
  IF k \notin DOMAIN S.objects_ THEN {[S |-> S, ret |-> 0, data |-> <<>>]}
  ELSE
    LET e == S.objects_[k]
        size == e.size
        keep == keep_in_buffer /\ ~(size > S.max_buffer_size_)
        miss == Len(e.data) = 0
        Rest(S2) ==
          LET S3 == touch_LRU(S2, k)
          IN [S |-> IF ~keep THEN write_back_it(S3, k) ELSE S3,
              ret |-> size, data |-> S3.objects_[k].data]
        Read(S1) ==
          { [S1 EXCEPT !.objects_[k].data = bytes,
                       !.objects_[k].modified = FALSE,
                       !.buffer_size_ = (@ + size) % SizeMod] :
            bytes \in ReadAt(S1.disk[S1.filename_],
                             S1.objects_[k].index_in_file, size) }
    IN IF ~miss THEN {Rest(S)}
       ELSE UNION { IF S1.status # "ok" THEN {[S |-> S1, ret |-> 0, data |-> <<>>]}
                    ELSE { Rest(S2) : S2 \in Read(S1) } :
                    S1 \in IF (size + S.buffer_size_) % SizeMod > S.max_buffer_size_
                              /\ keep
                           THEN unload(S, (S.max_buffer_size_ - size) % SizeMod)
                           ELSE {S} }

is_available(S, k) == k \in DOMAIN S.objects_

\* init(filename, temporary_file), lines 122-150: the entries named by the
\* header of a file, read from position pos on; n entries are still to come.
RECURSIVE read_entries(_, _, _, _)
read_entries(f, pos, n, objs) ==
  IF n = 0 THEN [objects |-> objs, end |-> pos]
  ELSE LET key_size == DecodeSizeT(SubSeq(f, pos + 1, pos + SizeT))
           data_size == DecodeSizeT(SubSeq(f, pos + SizeT + 1, pos + 2 * SizeT))
           key == deserialize(SubSeq(f, pos + 2 * SizeT + 1, pos + 2 * SizeT + key_size))
           at == pos + 2 * SizeT + key_size
           e == [data |-> <<>>, index_in_file |-> at, size |-> data_size,
                 modified |-> FALSE]
           objs1 == IF key \in DOMAIN objs THEN objs
                    ELSE [x \in (DOMAIN objs) \cup {key} |->
                            IF x = key THEN e ELSE objs[x]]
       IN read_entries(f, at + data_size, n - 1, objs1)

NoObjects == [x \in {} |-> 0]

read_file(f) ==
  read_entries(f, SizeT, DecodeSizeT(SubSeq(f, 1, SizeT)), NoObjects)

\* internal_flush, lines 436-461: the records of the rebuilt file, for the
\* entries from position i of the iteration order ord on.  failed: a read
\* has failed, and every later read of stream_ fails too, leaving the bytes
\* junk in temp_buffer; fail: an invalid read makes the stream fail.
RECURSIVE rebuild_records(_, _, _, _, _, _)
rebuild_records(S, ord, i, failed, junk, fail) ==
  IF i > Len(ord) THEN <<>>
  ELSE LET e == S.objects_[ord[i]]
           f == S.disk[S.filename_]
           key_str == serialize(ord[i])
           valid == ~failed /\ ValidRange(f, e.index_in_file, e.size)
           bytes == IF valid THEN SubSeq(f, e.index_in_file + 1, e.index_in_file + e.size)
                    ELSE Repeat(junk, e.size)
       IN EncodeSizeT(Len(key_str)) \o EncodeSizeT(e.size) \o key_str \o bytes
          \o rebuild_records(S, ord, i + 1, failed \/ (~valid /\ fail), junk, fail)

\* The orders in which objects_ can be iterated.
Orders(S) ==
  LET K == DOMAIN S.objects_
  IN { o \in [1..Cardinality(K) -> K] :
         \A i, j \in 1..Cardinality(K) : i # j => o[i] # o[j] }

\* What the reads of a rebuild can do: nothing to choose when all are valid.
Reads(S) ==
  IF \A k \in DOMAIN S.objects_ :
       ValidRange(S.disk[S.filename_], S.objects_[k].index_in_file, S.objects_[k].size)
  THEN {<<0, FALSE>>}
  ELSE JunkBytes \X BOOLEAN

\* internal_flush without must_rebuild_file_ = false.
internal_flush_keeps_flag(S) ==
  UNION { IF S1.status # "ok" \/ ~S1.must_rebuild_file_ THEN {S1}
          ELSE { [S1 EXCEPT !.disk[S1.filename_] =
                               EncodeSizeT(Cardinality(DOMAIN S1.objects_))
                               \o rebuild_records(S1, ord, 1, FALSE, rd[1], rd[2])] :
                 ord \in Orders(S1), rd \in Reads(S1) } :
          S1 \in unload(S, 0) }

\* internal_flush
internal_flush(S) ==
  UNION { IF S1.status # "ok" \/ ~S1.must_rebuild_file_ THEN {S1}
          ELSE { [S1 EXCEPT !.must_rebuild_file_ = FALSE,
                            !.disk[S1.filename_] =
                               EncodeSizeT(Cardinality(DOMAIN S1.objects_))
                               \o rebuild_records(S1, ord, 1, FALSE, rd[1], rd[2])] :
                 ord \in Orders(S1), rd \in Reads(S1) } :
          S1 \in unload(S, 0) }

\* boost::filesystem::remove(path); a removed file and an empty one open alike.
RemoveFile(d, p) == [d EXCEPT ![p] = <<>>]

\* init(filename, temporary_file)
init(S, filename, temporary_file) ==
  LET Open(S1) ==
        LET disk1 == IF S1.temporary_file_ THEN RemoveFile(S1.disk, S1.filename_)
                     ELSE S1.disk
            f == disk1[filename]
            S2 == [S1 EXCEPT !.filename_ = filename,
                             !.temporary_file_ = temporary_file,
                             !.buffer_size_ = 0,
                             !.LRU_ = <<>>]
        IN IF Len(f) > 0
           THEN [S2 EXCEPT !.disk = disk1, !.objects_ = read_file(f).objects]
           ELSE [S2 EXCEPT !.disk = [disk1 EXCEPT ![filename] = EncodeSizeT(0)],
                           !.objects_ = NoObjects]
  IN { IF S1.status # "ok" THEN S1 ELSE Open(S1) : S1 \in internal_flush(S) }

\* flush(): init(filename_) leaves temporary_file at its default, false.
flush(S) ==
  UNION { IF S1.status # "ok" THEN {S1} ELSE init(S1, S1.filename_, FALSE) :
          S1 \in internal_flush(S) }

\* clear(): remove every key of available_objects(), then flush.
RECURSIVE remove_all(_, _)
remove_all(S, ks) ==
  IF ks = {} THEN S
  ELSE LET k == CHOOSE x \in ks : TRUE
       IN remove_all(remove(S, k), ks \ {k})

\* clear() without the flush.
clear_without_flush(S) == {remove_all(S, DOMAIN S.objects_)}

clear(S) == flush(remove_all(S, DOMAIN S.objects_))

\* The members before the constructor body runs; d is the file system.
Members(d) ==
  [objects_ |-> NoObjects, LRU_ |-> <<>>, must_rebuild_file_ |-> FALSE,
   max_buffer_size_ |-> 0, buffer_size_ |-> 0, filename_ |-> "",
   temporary_file_ |-> FALSE, disk |-> d, status |-> "ok"]

\* ObjectArchive(): init() on a path no file has yet, then set_buffer_size(0).
Constructor(d) ==
  UNION { set_buffer_size(S, 0) : S \in init(Members(RemoveFile(d, "tmp")), "tmp", TRUE) }

\* ~ObjectArchive()
Destructor(S) ==
  { IF S1.status # "ok" THEN S1
    ELSE [Members(IF S1.temporary_file_ THEN RemoveFile(S1.disk, S1.filename_)
                  ELSE S1.disk) EXCEPT !.status = "closed"] :
    S1 \in IF ~S.temporary_file_ THEN internal_flush(S) ELSE {S} }

\* ------------------------------------------------------- the state machine
Self ==
  [objects_ |-> objects_, LRU_ |-> LRU_, must_rebuild_file_ |-> must_rebuild_file_,
   max_buffer_size_ |-> max_buffer_size_, buffer_size_ |-> buffer_size_,
   filename_ |-> filename_, temporary_file_ |-> temporary_file_, disk |-> disk,
   status |-> status]

\* A call that crashes or never returns leaves nothing to observe but the files.
Commit(S0) ==
  LET S == IF S0.status \in {"crash", "hang"}
           THEN [Members(S0.disk) EXCEPT !.status = S0.status]
           ELSE S0
  IN
  /\ objects_' = S.objects_
  /\ LRU_' = S.LRU_
  /\ must_rebuild_file_' = S.must_rebuild_file_
  /\ max_buffer_size_' = S.max_buffer_size_
  /\ buffer_size_' = S.buffer_size_
  /\ filename_' = S.filename_
  /\ temporary_file_' = S.temporary_file_
  /\ disk' = S.disk
  /\ status' = S.status

\* The bytes load_raw delivers for key k (<<>> when k is not available).
Content(S, k) ==
  IF k \notin DOMAIN S.objects_ THEN <<>>
  ELSE LET e == S.objects_[k]
       IN IF Len(e.data) # 0 THEN e.data
          ELSE LET f == S.disk[S.filename_]
               IN IF ValidRange(f, e.index_in_file, e.size)
                  THEN SubSeq(f, e.index_in_file + 1, e.index_in_file + e.size)
                  ELSE <<>>

\* Bytes of a file behind the records its header names.
Appended(f) == IF Len(f) = 0 THEN 0 ELSE Len(f) - read_file(f).end

Bounded(S) ==
  /\ \A p \in Paths : Appended(S.disk[p]) <= MaxAppend
  /\ NumStale(S.LRU_) <= MaxStale


Call(op, k, k2, ret, data) ==
  [op |-> op, key |-> k, key2 |-> k2, ret |-> ret, data |-> data]
NoInserted == [k \in Keys |-> <<>>]
NoOverwrite == [st |-> "none", key |-> 0, val |-> <<>>]
NoClose == [valid |-> FALSE, content |-> NoInserted]

\* No worker thread runs: the archive has one caller.
NoThreads == [pc |-> <<>>, i |-> <<>>, arg |-> <<>>, val |-> <<>>, got |-> <<>>]

\* No MPI world: the archive is a plain ObjectArchive.
NoWorld == [node |-> <<>>, net |-> <<>>, ops |-> 0, log |-> <<>>, unborn |-> {}]

\* What the observers record when a call ends in state S.
Observe(S, l, ins, ow, ac) ==
  /\ calls' = calls + 1
  /\ UNCHANGED <<thr, mpi>>
  /\ plain' = IF S.status \notin {"ok", "closed"} THEN "no"
              ELSE IF l.op = "init" THEN "config"
              ELSE IF l.op = "set_buffer_size" /\ plain = "config" THEN "config"
              ELSE IF l.op \in {"insert", "remove"} /\ plain \in {"config", "ops"}
                THEN "ops"
              ELSE IF l.op \in {"load", "unload", "set_buffer_size"}
                      /\ plain \in {"config", "read"} THEN "read"
              ELSE IF l.op = "destroy" THEN plain
              ELSE "no"
  /\ IF S.status \in {"ok", "closed"}
     THEN last' = l /\ inserted' = ins /\ overwritten' = ow /\ at_close' = ac
     ELSE /\ last' = Call(l.op, 0, 0, 0, <<>>)
          /\ inserted' = NoInserted
          /\ overwritten' = NoOverwrite
          /\ at_close' = NoClose

\* The archive right after ObjectArchive() on a file system without files.
Init ==
  /\ \E S \in Constructor([p \in Paths |-> <<>>]) :
        /\ objects_ = S.objects_
        /\ LRU_ = S.LRU_
        /\ must_rebuild_file_ = S.must_rebuild_file_
        /\ max_buffer_size_ = S.max_buffer_size_
        /\ buffer_size_ = S.buffer_size_
        /\ filename_ = S.filename_
        /\ temporary_file_ = S.temporary_file_
        /\ disk = S.disk
        /\ status = S.status
  /\ last = Call("construct", 0, 0, 0, <<>>)
  /\ inserted = NoInserted
  /\ overwritten = NoOverwrite
  /\ at_close = NoClose
  /\ calls = 0
  /\ plain = "no"
  /\ thr = NoThreads
  /\ mpi = NoWorld

Insert ==
  /\ status = "ok"
  /\ calls < MaxCalls
  /\ \E k \in Keys, v \in Payloads, keep \in BOOLEAN :
       \E R \in insert_raw(Self, k, v, keep) :
          /\ Bounded(R)
          /\ Commit(R)
          /\ Observe(R, Call("insert", k, 0, Len(v), v),
                     [inserted EXCEPT ![k] = v],
                     [st |-> IF overwritten.st \in {"once", "twice"}
                                /\ overwritten.key = k
                             THEN "twice" ELSE "once",
                      key |-> k, val |-> v],
                     NoClose)

Load ==
  /\ status = "ok"
  /\ calls < MaxCalls
  /\ \E k \in Keys, keep \in BOOLEAN :
       \E R \in load_raw(Self, k, keep) :
          /\ Bounded(R.S)
          /\ Commit(R.S)
          /\ Observe(R.S, Call("load", k, 0, R.ret, R.data), inserted,
                     IF overwritten.st \in {"twice", "reopened"} /\ overwritten.key = k
                     THEN [overwritten EXCEPT !.st = "loaded"]
                     ELSE NoOverwrite,
                     NoClose)

Remove ==
  /\ status = "ok"
  /\ calls < MaxCalls
  /\ \E k \in Keys :
       \E R \in {remove(Self, k)} :
          /\ Bounded(R)
          /\ Commit(R)
          /\ Observe(R, Call("remove", k, 0, 0, <<>>), NoInserted,
                     NoOverwrite, NoClose)

ChangeKey ==
  /\ status = "ok"
  /\ calls < MaxCalls
  /\ \E old \in Keys, new \in Keys :
       \E R \in change_key(Self, old, new) :
          /\ Bounded(R)
          /\ Commit(R)
          /\ Observe(R, Call("change_key", old, new, 0, <<>>), NoInserted,
                     NoOverwrite, NoClose)

Unload ==
  /\ status = "ok"
  /\ calls < MaxCalls
  /\ \E d \in BufSizes :
       \E R \in unload(Self, d) :
          /\ Bounded(R)
          /\ Commit(R)
          /\ Observe(R, Call("unload", 0, 0, 0, <<>>), inserted,
                     NoOverwrite, NoClose)

SetBufferSize ==
  /\ status = "ok"
  /\ calls < MaxCalls
  /\ \E m \in BufSizes :
       \E R \in set_buffer_size(Self, m) :
          /\ Bounded(R)
          /\ Commit(R)
          /\ Observe(R, Call("set_buffer_size", 0, 0, 0, <<>>), inserted,
                     NoOverwrite, NoClose)

Flush ==
  /\ status = "ok"
  /\ calls < MaxCalls
  /\ \E R \in flush(Self) :
          /\ Bounded(R)
          /\ Commit(R)
          /\ Observe(R, Call("flush", 0, 0, 0, <<>>), NoInserted,
                     NoOverwrite, NoClose)

Clear ==
  /\ status = "ok"
  /\ calls < MaxCalls
  /\ \E R \in clear(Self) :
          /\ Bounded(R)
          /\ Commit(R)
          /\ Observe(R, Call("clear", 0, 0, Cardinality(DOMAIN objects_), <<>>),
                     NoInserted,
                     NoOverwrite, NoClose)

\* ar.init(filename) with the path of the named file.
InitNamed ==
  /\ status = "ok"
  /\ calls < MaxCalls
  /\ \E R \in init(Self, "named", FALSE) :
          /\ Bounded(R)
          /\ Commit(R)
          /\ Observe(R, Call("init", 0, 0, 0, <<>>), NoInserted,
                     IF overwritten.st = "closed"
                     THEN [overwritten EXCEPT !.st = "reopened"]
                     ELSE NoOverwrite,
                     NoClose)

Destroy ==
  /\ status = "ok"
  /\ calls < MaxCalls
  /\ \E R \in Destructor(Self) :
       LET named == filename_ = "named" /\ ~temporary_file_
       IN /\ Bounded(R)
          /\ Commit(R)
          /\ Observe(R, Call("destroy", 0, 0, 0, <<>>), NoInserted,
                     IF overwritten.st = "twice" /\ named
                     THEN [overwritten EXCEPT !.st = "closed"]
                     ELSE NoOverwrite,
                     IF named
                     THEN [valid |-> TRUE,
                           content |-> [k \in Keys |-> Content(Self, k)]]
                     ELSE NoClose)

Construct ==
  /\ status = "closed"
  /\ calls < MaxCalls
  /\ calls' = calls + 1
  /\ \E R \in Constructor(disk) :
        /\ Commit(R)
        /\ last' = Call("construct", 0, 0, 0, <<>>)
        /\ inserted' = NoInserted
        /\ plain' = "no"
        /\ UNCHANGED <<overwritten, at_close, thr, mpi>>

Next ==
  \/ Insert
  \/ Load
  \/ Remove
  \/ ChangeKey
  \/ Unload
  \/ SetBufferSize
  \/ Flush
  \/ Clear
  \/ InitNamed
  \/ Destroy
  \/ Construct

Spec == Init /\ [][Next]_vars

TypeOK ==
  /\ status \in {"ok", "closed", "crash", "hang"}
  /\ buffer_size_ \in 0..(SizeMod - 1)
  /\ DOMAIN objects_ \subseteq Keys

\* ------------------------------------------------------------- properties
Returned == status = "ok"
Available == DOMAIN objects_
Resident(S, k) == k \in DOMAIN S.objects_ /\ Len(S.objects_[k].data) # 0

RECURSIVE SumSizes(_, _)
SumSizes(S, ks) ==
  IF ks = {} THEN 0
  ELSE LET k == CHOOSE x \in ks : TRUE
       IN S.objects_[k].size + SumSizes(S, ks \ {k})

ResidentSum(S) == SumSizes(S, { k \in DOMAIN S.objects_ : Resident(S, k) })

\* The archives a new process can get from the files d: ObjectArchive ar;
\* ar.init(filename) with the path of the named file.
Reopen(d) == UNION { init(S, "named", FALSE) : S \in Constructor(d) }

\* C1: after insert(k, v) and then only insert (of other keys), load, unload
\* and set_buffer_size calls, load(k) returns the size of v and the bytes
\* of v, with either keep_in_buffer value.
RoundTrip ==
  \A k \in Keys :
    (Returned /\ inserted[k] # <<>>)
      => \A keep \in BOOLEAN : \A R \in load_raw(Self, k, keep) :
           /\ R.S.status = "ok"
           /\ R.ret = Len(inserted[k])
           /\ R.data = inserted[k]

\* C2: after insert(k, v1); insert(k, v2) a load of k returns v2, at once
\* and after the archive on the named file is destroyed and opened again.
LastWriterWins ==
  /\ (Returned /\ overwritten.st = "loaded")
       => (last.ret = Len(overwritten.val) /\ last.data = overwritten.val)
  /\ (status = "closed" /\ overwritten.st = "closed")
       => \A S \in Reopen(disk) : \A keep \in BOOLEAN :
            \A R \in load_raw(S, overwritten.key, keep) :
              R.ret = Len(overwritten.val) /\ R.data = overwritten.val

\* C3: remove(k) leaves k not available, a load of k then returns 0, and
\* the entry and the bytes of every other key are what they were.
RemoveEffect ==
  [][(last'.op = "remove" /\ status' = "ok")
       => /\ ~is_available(Self', last'.key)
          /\ \A keep \in BOOLEAN : \A R \in load_raw(Self', last'.key, keep) :
               R.ret = 0 /\ R.data = <<>>
          /\ \A k \in Keys \ {last'.key} :
               /\ is_available(Self', k) = is_available(Self, k)
               /\ is_available(Self, k) => objects_'[k] = objects_[k]
               /\ Content(Self', k) = Content(Self, k)]_vars

\* C3 witness: remove(k) has returned for a key that was resident, while
\* another key is available.
RemoveWitness ==
  /\ Returned /\ last.op = "remove"
  /\ \E i \in 1..Len(LRU_) : LRU_[i] = Stale(last.key)
  /\ last.key \notin Available
  /\ Available # {}

\* C4: change_key(a, b) with a present and b another key leaves a not
\* available and b available with the entry (offset, size, resident bytes,
\* modified flag) and the bytes a had, and sets must_rebuild_file_.
ChangeKeyEffect ==
  [][(last'.op = "change_key" /\ status' = "ok" /\ calls' = calls + 1
        /\ last'.key # last'.key2 /\ is_available(Self, last'.key))
       => /\ ~is_available(Self', last'.key)
          /\ is_available(Self', last'.key2)
          /\ objects_'[last'.key2] = objects_[last'.key]
          /\ Content(Self', last'.key2) = Content(Self, last'.key)
          /\ must_rebuild_file_']_vars

\* C5: after a call returns, buffer_size_ <= max_buffer_size_.
BoundedMemory == Returned => buffer_size_ <= max_buffer_size_

\* C6: buffer_size_ is the sum of size over the resident entries.
BufferAccounting == Returned => buffer_size_ = ResidentSum(Self)

\* C7: LRU_ holds a pointer to every resident entry, once, and nothing else.
MRUResidency ==
  Returned =>
    /\ \A i \in 1..Len(LRU_) : LRU_[i].live /\ Resident(Self, LRU_[i].key)
    /\ \A i, j \in 1..Len(LRU_) : i # j => LRU_[i] # LRU_[j]
    /\ \A k \in Available : Resident(Self, k) => \E i \in 1..Len(LRU_) : LRU_[i] = Ptr(k)

\* C8: after the archive on the named file is destroyed, opening the file
\* again yields the keys that were available at destruction, each with the
\* bytes it held then.
Durability ==
  (status = "closed" /\ at_close.valid)
    => \A S \in Reopen(disk) : \A k \in Keys :
         /\ is_available(S, k) = (at_close.content[k] # <<>>)
         /\ Content(S, k) = at_close.content[k]

\* C9: flush() keeps every available key available with the same bytes, on
\* the named file and on the temporary file of a default constructed archive.
FlushPreserves ==
  [][(last'.op = "flush" /\ status' = "ok" /\ calls' = calls + 1)
       => \A k \in Keys :
            /\ is_available(Self, k) => is_available(Self', k)
            /\ Content(Self', k) = Content(Self, k)]_vars

\* C10: after flush() returns no entry is modified or resident,
\* buffer_size_ is 0, LRU_ is empty and must_rebuild_file_ is false.
FlushClean ==
  (Returned /\ last.op = "flush")
    => /\ \A k \in Available : ~objects_[k].modified /\ objects_[k].data = <<>>
       /\ buffer_size_ = 0
       /\ LRU_ = <<>>
       /\ ~must_rebuild_file_

\* C10 witness: flush() has returned on an archive that holds every key.
FlushCleanWitness ==
  /\ Returned /\ last.op = "flush"
  /\ Available = Keys
  /\ filename_ = "named"

\* The record of key k with payload v, as internal_flush writes it.
Record(k, v) ==
  EncodeSizeT(Len(serialize(k))) \o EncodeSizeT(Len(v)) \o serialize(k) \o v

RECURSIVE Records(_, _, _)
Records(content, ord, i) ==
  IF i > Len(ord) THEN <<>>
  ELSE Record(ord[i], content[ord[i]]) \o Records(content, ord, i + 1)

\* The files that hold the count of the live keys of content and then one
\* record per live key with its payload, in any order.
CompactFiles(content) ==
  LET K == { k \in Keys : content[k] # <<>> }
  IN { EncodeSizeT(Cardinality(K)) \o Records(content, ord, 1) :
       ord \in { o \in [1..Cardinality(K) -> K] :
                   \A i, j \in 1..Cardinality(K) : i # j => o[i] # o[j] } }

\* C11: when an archive on the named file is destroyed after inserts,
\* overwrites and removes only, the file holds the count of the live keys
\* and exactly one record per live key with its latest payload.
CompactOnClose ==
  (status = "closed" /\ at_close.valid /\ plain = "ops")
    => disk["named"] \in CompactFiles(at_close.content)

\* The step is a returned insert or load of key k whose payload is larger
\* than max_buffer_size_.
OversizedStep(k) ==
  /\ status' = "ok" /\ calls' = calls + 1
  /\ last'.key = k
  /\ \/ last'.op = "insert" /\ Len(last'.data) > max_buffer_size_
     \/ /\ last'.op = "load"
        /\ is_available(Self, k)
        /\ objects_[k].size > max_buffer_size_

\* What an oversized insert or load of k leaves, apart from buffer_size_.
OversizedResult(k) ==
  LET v == IF last'.op = "insert" THEN last'.data ELSE Content(Self, k)
  IN /\ last'.ret = Len(v)
     /\ last'.op = "load" => last'.data = v
     /\ is_available(Self', k) /\ ~Resident(Self', k)
     /\ Content(Self', k) = v
     /\ \A keep \in BOOLEAN : \A R \in load_raw(Self', k, keep) :
          R.S.status = "ok" /\ R.ret = Len(v) /\ R.data = v
     /\ \A j \in Keys \ {k} :
          /\ is_available(Self', j) = is_available(Self, j)
          /\ is_available(Self, j) => objects_'[j] = objects_[j]

\* C19 as stated: an insert or load of a payload larger than max_buffer
\* returns its size, leaves it on file, loadable and not resident, and leaves
\* buffer_size_ and the other entries as they were.
OversizedBypass ==
  [][\A k \in Keys :
       OversizedStep(k) => (OversizedResult(k) /\ buffer_size_' = buffer_size_)]_vars

\* C19 amended: as above, but buffer_size_ goes down by the size of the
\* payload that k itself held in memory before the call.
OversizedBypassOwn ==
  [][\A k \in Keys :
       OversizedStep(k) =>
         /\ OversizedResult(k)
         /\ buffer_size_' =
              (buffer_size_ - (IF Resident(Self, k) THEN objects_[k].size ELSE 0))
                % SizeMod]_vars

\* C19 witness: an oversized insert has returned while another key is
\* resident and buffer_size_ counts it.
OversizedWitness ==
  /\ Returned /\ last.op = "insert"
  /\ Len(last.data) > max_buffer_size_
  /\ ~Resident(Self, last.key)
  /\ buffer_size_ > 0
  /\ \E j \in Keys \ {last.key} : Resident(Self, j)

Workers == {0, 1}
NRounds == NKeys
NoGot == [key |-> 0, ret |-> 0, data |-> <<>>]

\* insert_raw from OBJECT_ARCHIVE_MUTEX_GUARD to the return.
insert_guarded(S, k, data, keep) ==
  LET size == Len(data)
      e == [data |-> data, index_in_file |-> Uninit, size |-> size, modified |-> TRUE]
  IN { LET S3 == [S EXCEPT !.buffer_size_ = (@ + size) % SizeMod]
           S4 == touch_LRU(MapEmplace(S3, k, e, r), k)
       IN IF ~keep THEN write_back_it(S4, k) ELSE S4 : r \in Addresses(S, k) }

Ghosts == <<last, inserted, overwritten, at_close, calls, plain, mpi>>

\* The worker goes on to its next round.
Advance(w, t) ==
  [t EXCEPT !.i[w] = @ + 1,
            !.pc[w] = IF t.i[w] + 1 > NRounds THEN "done" ELSE "next"]

InitThreads ==
  /\ \E m \in BufSizes :
       \E S0 \in Constructor([p \in Paths |-> <<>>]) :
         \E S \in set_buffer_size(S0, m) :
            /\ objects_ = S.objects_
            /\ LRU_ = S.LRU_
            /\ must_rebuild_file_ = S.must_rebuild_file_
            /\ max_buffer_size_ = S.max_buffer_size_
            /\ buffer_size_ = S.buffer_size_
            /\ filename_ = S.filename_
            /\ temporary_file_ = S.temporary_file_
            /\ disk = S.disk
            /\ status = S.status
  /\ last = Call("construct", 0, 0, 0, <<>>)
  /\ inserted = NoInserted
  /\ overwritten = NoOverwrite
  /\ at_close = NoClose
  /\ calls = 0
  /\ plain = "no"
  /\ thr = [pc |-> [w \in Workers |-> "next"],
            i |-> [w \in Workers |-> 1],
            arg |-> [w \in Workers |-> [v |-> <<>>, keep |-> FALSE]],
            val |-> [k \in Keys |-> <<>>],
            got |-> [w \in Workers |-> NoGot]]
  /\ mpi = NoWorld

\* worker(): the round starts with ar->insert(i, i) or with the poll loop.
TBegin(w) ==
  /\ status = "ok" /\ thr.pc[w] = "next"
  /\ \E v \in Payloads, keep \in BOOLEAN :
       thr' = IF thr.i[w] % 2 = w
              THEN [thr EXCEPT !.pc[w] = "ins_remove",
                               !.arg[w] = [v |-> v, keep |-> keep],
                               !.val[thr.i[w]] = v]
              ELSE [thr EXCEPT !.pc[w] = "poll",
                               !.arg[w] = [v |-> <<>>, keep |-> keep]]
  /\ UNCHANGED prog
  /\ UNCHANGED Ghosts

\* insert_raw, l.284: ObjectArchive<Key>::remove(key).
TInsRemove(w) ==
  /\ status = "ok" /\ thr.pc[w] = "ins_remove"
  /\ Commit(remove(Self, thr.i[w]))
  /\ thr' = [thr EXCEPT !.pc[w] = "ins_check"]
  /\ UNCHANGED Ghosts

\* insert_raw, l.279-280 and 286: the test that decides on unload, read
\* without the mutex.
TInsCheck(w) ==
  /\ status = "ok" /\ thr.pc[w] = "ins_check"
  /\ LET size == Len(thr.arg[w].v)
         keep == thr.arg[w].keep /\ ~(size > max_buffer_size_)
     IN thr' = [thr EXCEPT !.arg[w].keep = keep,
                           !.pc[w] = IF (size + buffer_size_) % SizeMod > max_buffer_size_
                                        /\ keep
                                     THEN "ins_unload" ELSE "ins_body"]
  /\ UNCHANGED prog
  /\ UNCHANGED Ghosts

\* insert_raw, l.287: unload(max_buffer_size_ - size).
TInsUnload(w) ==
  /\ status = "ok" /\ thr.pc[w] = "ins_unload"
  /\ \E R \in unload(Self, (max_buffer_size_ - Len(thr.arg[w].v)) % SizeMod) : Commit(R)
  /\ thr' = [thr EXCEPT !.pc[w] = "ins_body"]
  /\ UNCHANGED Ghosts

\* insert_raw, l.289-305, under the mutex.
TInsBody(w) ==
  /\ status = "ok" /\ thr.pc[w] = "ins_body"
  /\ \E R \in insert_guarded(Self, thr.i[w], thr.arg[w].v, thr.arg[w].keep) : Commit(R)
  /\ thr' = Advance(w, thr)
  /\ UNCHANGED Ghosts

\* worker(): while (!ar->is_available(i));
TPoll(w) ==
  /\ status = "ok" /\ thr.pc[w] = "poll"
  /\ is_available(Self, thr.i[w])
  /\ thr' = [thr EXCEPT !.pc[w] = "ld_avail"]
  /\ UNCHANGED prog
  /\ UNCHANGED Ghosts

\* load_raw, l.321-322: if (!is_available(key)) return 0.
TLoadAvail(w) ==
  /\ status = "ok" /\ thr.pc[w] = "ld_avail"
  /\ thr' = IF is_available(Self, thr.i[w])
            THEN [thr EXCEPT !.pc[w] = "ld_body"]
            ELSE Advance(w, [thr EXCEPT !.got[w] = [key |-> thr.i[w], ret |-> 0,
                                                    data |-> <<>>]])
  /\ UNCHANGED prog
  /\ UNCHANGED Ghosts

\* load_raw, l.324-364, under the mutex.
TLoadBody(w) ==
  /\ status = "ok" /\ thr.pc[w] = "ld_body"
  /\ \E R \in load_raw(Self, thr.i[w], thr.arg[w].keep) :
       /\ Commit(R.S)
       /\ thr' = Advance(w, [thr EXCEPT !.got[w] = [key |-> thr.i[w], ret |-> R.ret,
                                                    data |-> R.data]])
  /\ UNCHANGED Ghosts

NextThreads ==
  \/ \E w \in Workers : TBegin(w)
  \/ \E w \in Workers : TInsRemove(w)
  \/ \E w \in Workers : TInsCheck(w)
  \/ \E w \in Workers : TInsUnload(w)
  \/ \E w \in Workers : TInsBody(w)
  \/ \E w \in Workers : TPoll(w)
  \/ \E w \in Workers : TLoadAvail(w)
  \/ \E w \in Workers : TLoadBody(w)

SpecThreads == InitThreads /\ [][NextThreads]_vars

\* Two threads call insert at the same time: worker w inserts key thr.i[w],
\* and both have entered insert_raw.
InitInserts ==
  /\ \E m \in BufSizes :
       \E S0 \in Constructor([p \in Paths |-> <<>>]) :
         \E S \in set_buffer_size(S0, m) :
            /\ objects_ = S.objects_
            /\ LRU_ = S.LRU_
            /\ must_rebuild_file_ = S.must_rebuild_file_
            /\ max_buffer_size_ = S.max_buffer_size_
            /\ buffer_size_ = S.buffer_size_
            /\ filename_ = S.filename_
            /\ temporary_file_ = S.temporary_file_
            /\ disk = S.disk
            /\ status = S.status
  /\ last = Call("construct", 0, 0, 0, <<>>)
  /\ inserted = NoInserted
  /\ overwritten = NoOverwrite
  /\ at_close = NoClose
  /\ calls = 0
  /\ plain = "no"
  /\ \E key \in [Workers -> Keys], v \in [Workers -> Payloads],
        keep \in [Workers -> BOOLEAN] :
       thr = [pc |-> [w \in Workers |-> "ins_remove"],
              i |-> key,
              arg |-> [w \in Workers |-> [v |-> v[w], keep |-> keep[w]]],
              val |-> [k \in Keys |-> <<>>],
              got |-> [w \in Workers |-> NoGot]]
  /\ mpi = NoWorld

NextInserts ==
  \/ \E w \in Workers : TInsRemove(w)
  \/ \E w \in Workers : TInsCheck(w)
  \/ \E w \in Workers : TInsUnload(w)
  \/ \E w \in Workers : TInsBody(w)

SpecInserts == InitInserts /\ [][NextInserts]_vars

\* C18: once is_available(k) has returned true to the polling thread, its
\* load(k) returns the size and the bytes the other thread inserted, for
\* every max_buffer_size_ (0 included) and every interleaving.
ThreadPublish ==
  /\ status = "ok"
  /\ \A w \in DOMAIN thr.got :
       thr.got[w].key # 0
         => /\ thr.got[w].ret = Len(thr.val[thr.got[w].key])
            /\ thr.got[w].data = thr.val[thr.got[w].key]

\* C18 witness: with max_buffer_size_ = 0 a worker has polled and loaded the
\* key of the second round while the archive holds both keys.
ThreadPublishWitness ==
  /\ max_buffer_size_ = 0
  /\ \E w \in DOMAIN thr.got :
       /\ thr.got[w].key = 2
       /\ thr.got[w].data = thr.val[2]
       /\ Len(thr.got[w].data) = MaxLen
  /\ Available = Keys

\* ------------------------------------------------------------ the rebuild
\* internal_flush step by step, as flush() runs it on an archive on the named
\* file.  thr holds the position inside internal_flush: old, the backing file
\* when the rebuild began; temp, the temporary file; ord, the iteration order
\* of objects_; i, the next entry to copy.
NoRebuild == [pc |-> "idle", old |-> <<>>, temp |-> <<>>, ord |-> <<>>, i |-> 0]

\* An archive opened on the named file that holds inserted entries.
InitRebuild ==
  /\ \E S0 \in Constructor([p \in Paths |-> <<>>]), m \in BufSizes,
        k \in Keys, v \in Payloads, keep \in BOOLEAN :
       \E S1 \in init(S0, "named", FALSE) :
         \E S2 \in set_buffer_size(S1, m) :
           \E S \in insert_raw(S2, k, v, keep) :
             /\ objects_ = S.objects_
             /\ LRU_ = S.LRU_
             /\ must_rebuild_file_ = S.must_rebuild_file_
             /\ max_buffer_size_ = S.max_buffer_size_
             /\ buffer_size_ = S.buffer_size_
             /\ filename_ = S.filename_
             /\ temporary_file_ = S.temporary_file_
             /\ disk = S.disk
             /\ status = S.status
  /\ last = Call("insert", 0, 0, 0, <<>>)
  /\ inserted = NoInserted
  /\ overwritten = NoOverwrite
  /\ at_close = NoClose
  /\ calls = 0
  /\ plain = "no"
  /\ thr = NoRebuild
  /\ mpi = NoWorld

\* insert between two flushes.
RInsert ==
  /\ thr.pc = "idle" /\ status = "ok"
  /\ calls < MaxCalls
  /\ \E k \in Keys, v \in Payloads, keep \in BOOLEAN :
       \E R \in insert_raw(Self, k, v, keep) :
         /\ Bounded(R)
         /\ Commit(R)
  /\ calls' = calls + 1
  /\ UNCHANGED <<last, inserted, overwritten, at_close, plain, thr, mpi>>

\* internal_flush, l.413-429: unload(), the test of must_rebuild_file_, the
\* temporary file is opened and gets the number of entries.
RBegin ==
  /\ thr.pc = "idle" /\ status = "ok"
  /\ calls < MaxCalls
  /\ \E S1 \in unload(Self, 0) :
       IF S1.status = "ok" /\ S1.must_rebuild_file_
       THEN /\ Commit([S1 EXCEPT !.must_rebuild_file_ = FALSE])
            /\ \E o \in Orders(S1) :
                 thr' = [pc |-> "write", old |-> S1.disk[S1.filename_],
                         temp |-> EncodeSizeT(Cardinality(DOMAIN S1.objects_)),
                         ord |-> o, i |-> 1]
       ELSE Commit(S1) /\ thr' = thr
  /\ calls' = calls + 1
  /\ UNCHANGED <<last, inserted, overwritten, at_close, plain, mpi>>

\* internal_flush, l.435-461: one entry is copied to the temporary file.
RWrite ==
  /\ thr.pc = "write" /\ thr.i <= Len(thr.ord)
  /\ \E rd \in Reads(Self) :
       thr' = [thr EXCEPT !.temp = @ \o rebuild_records(Self, <<thr.ord[thr.i]>>, 1,
                                                        FALSE, rd[1], rd[2]),
                          !.i = @ + 1]
  /\ UNCHANGED <<prog, last, inserted, overwritten, at_close, calls, plain, mpi>>

\* internal_flush, l.465-468: the streams are closed and the backing file is
\* removed.
RRemoveOld ==
  /\ thr.pc = "write" /\ thr.i > Len(thr.ord)
  /\ disk' = RemoveFile(disk, filename_)
  /\ thr' = [thr EXCEPT !.pc = "removed"]
  /\ UNCHANGED <<objects_, LRU_, must_rebuild_file_, max_buffer_size_, buffer_size_,
                 filename_, temporary_file_, status,
                 last, inserted, overwritten, at_close, calls, plain, mpi>>

\* internal_flush, l.469: the temporary file is copied to the path of the
\* backing file.
RCopy ==
  /\ thr.pc = "removed"
  /\ disk' = [disk EXCEPT ![filename_] = thr.temp]
  /\ thr' = [thr EXCEPT !.pc = "copied"]
  /\ UNCHANGED <<objects_, LRU_, must_rebuild_file_, max_buffer_size_, buffer_size_,
                 filename_, temporary_file_, status,
                 last, inserted, overwritten, at_close, calls, plain, mpi>>

\* internal_flush, l.470: the temporary file is removed; then flush() calls
\* init(filename_), l.402.
RDone ==
  /\ thr.pc = "copied"
  /\ \E R \in init(Self, filename_, FALSE) : Commit(R)
  /\ thr' = NoRebuild
  /\ UNCHANGED <<last, inserted, overwritten, at_close, calls, plain, mpi>>

NextRebuild ==
  \/ RInsert
  \/ RBegin
  \/ RWrite
  \/ RRemoveOld
  \/ RCopy
  \/ RDone

SpecRebuild == InitRebuild /\ [][NextRebuild]_vars

\* -------------------------------------------------------------------- MPI
\* MPIObjectArchive: NNodes ranks, each with an archive, its view alive_ of
\* the others, its request registry and the get_response loops it is inside.
\* mpi.net[<<s, d>>] holds the messages s sent to d that d has not received,
\* in the order they were sent.
NNodes == 3
MaxOps == 3
Ranks == 0..(NNodes - 1)
AnySource == -1          \* boost::mpi::any_source
None == -2               \* no entry in requests_found_

Msg(tag, k, k2, c, flag, data) ==
  [tag |-> tag, key |-> k, key2 |-> k2, counter |-> c, flag |-> flag, data |-> data]

\* world_.send(d, tag, val) called on rank s.  A message to a rank whose
\* archive is destroyed is never received and is not kept; a message to a
\* rank whose archive is not constructed yet waits for it.
Send(W, s, d, m) ==
  IF W.node[d].up \/ d \in W.unborn THEN [W EXCEPT !.net[<<s, d>>] = Append(@, m)]
  ELSE W

\* broadcast_others that sends to every other rank whatever alive_ holds.
broadcast_others_everyone(W, r, m, check_alive) ==
  [W EXCEPT !.net = [p \in DOMAIN W.net |->
                       IF /\ p[1] = r /\ p[2] # r
                          /\ (W.node[p[2]].up \/ p[2] \in W.unborn)
                       THEN Append(W.net[p], m)
                       ELSE W.net[p]]]

\* broadcast_others(tag, val, check_alive) called on rank r.
broadcast_others(W, r, m, check_alive) ==
  LET to == { i \in Ranks : W.node[r].alive_[i] \/ (~check_alive /\ i # r) }
  IN [W EXCEPT !.net = [p \in DOMAIN W.net |->
                          IF /\ p[1] = r /\ p[2] \in to
                             /\ (W.node[p[2]].up \/ p[2] \in W.unborn)
                          THEN Append(W.net[p], m)
                          ELSE W.net[p]]]

\* The requests rank r waits for: alive_requests_ and the maps keyed by the
\* address of the request.
\* Observers: asked, the ranks the request was sent to, and neg, the ranks
\* whose negative response to it was received.
NewRequest(k, source, n_waiting, doomed, asked) ==
  [key |-> k, source |-> source, waiting |-> n_waiting, found |-> None,
   valid |-> "none", data |-> <<>>, doomed |-> doomed, asked |-> asked, neg |-> {}]

\* Observer: the only rank that inserted k is destroyed, no rank that is up
\* holds k and no response_data with the bytes of k is on its way, so that a
\* lookup of k has nobody left to answer it.
Doomed(W, k) ==
  /\ W.log.ins[k] = 1 /\ ~W.log.touched[k]
  /\ ~W.node[W.log.owner[k]].up
  /\ \A i \in Ranks : W.node[i].up => ~is_available(W.node[i].S, k)
  /\ \A p \in DOMAIN W.net : \A j \in 1..Len(W.net[p]) :
        ~(W.net[p][j].tag = "response_data" /\ W.net[p][j].key = k /\ W.net[p][j].flag)
  /\ \A i \in Ranks : \A c \in DOMAIN W.node[i].reqs :
        ~(W.node[i].reqs[c].key = k /\ W.node[i].reqs[c].valid = "true")

\* alive_requests_.count(request) > 0
Registered(N, m) ==
  m.counter \in DOMAIN N.reqs /\ N.reqs[m.counter].key = m.key

\* What the observers keep of the last load that ended on a rank.
\* owed: the ranks asked that were alive and had not answered when the load
\* returned 0.
NoRes == [key |-> 0, ret |-> 0, data |-> <<>>, pre |-> FALSE, remote |-> FALSE,
          doomed |-> FALSE, orphan |-> FALSE, owed |-> {}]

\* What the observers keep of the last pull of process_inserted that ended.
NoPull == [key |-> 0, stored |-> FALSE, doomed |-> FALSE]

\* A load of k that ended on rank r with ret and data.
EndLoad(W, r, k, ret, data, pre, remote, doomed) ==
  [W EXCEPT !.res[r] = [key |-> k, ret |-> ret, data |-> data,
                        pre |-> pre, remote |-> remote, doomed |-> doomed,
                        orphan |-> /\ W.log.owner[k] # None
                                   /\ ~W.node[W.log.owner[k]].up,
                        owed |-> {}]]

\* A pull of k that ended on rank r.
EndPull(W, r, k, stored, doomed) ==
  [W EXCEPT !.pul[r] = [key |-> k, stored |-> stored, doomed |-> doomed]]

\* process_alive without the walk over requests_source_ when a rank died.
process_alive_keeps_waiting(W, r, s, m) ==
  LET old == W.node[r].alive_[s]
      W1 == [W EXCEPT !.node[r].alive_[s] = m.flag]
  IN IF m.flag /\ ~old
     THEN {Send(W1, r, s, Msg("alive", 0, 0, 0, TRUE, <<>>))}
     ELSE {W1}

\* process_alive that answers every alive(true).
process_alive_always_replies(W, r, s, m) ==
  LET old == W.node[r].alive_[s]
      W1 == [W EXCEPT !.node[r].alive_[s] = m.flag]
  IN IF m.flag
     THEN {Send(W1, r, s, Msg("alive", 0, 0, 0, TRUE, <<>>))}
     ELSE IF old /\ ~m.flag
     THEN LET reqs == W.node[r].reqs
          IN {[W1 EXCEPT !.node[r].reqs =
                 [c \in DOMAIN reqs |->
                    IF reqs[c].source = s \/ reqs[c].source = AnySource
                    THEN [reqs[c] EXCEPT !.waiting = @ - 1] ELSE reqs[c]]]}
     ELSE {W1}

\* process_alive
process_alive(W, r, s, m) ==
  LET old == W.node[r].alive_[s]
      W1 == [W EXCEPT !.node[r].alive_[s] = m.flag]
  IN IF m.flag /\ ~old
     THEN {Send(W1, r, s, Msg("alive", 0, 0, 0, TRUE, <<>>))}
     ELSE IF old /\ ~m.flag
     THEN LET reqs == W.node[r].reqs
          IN {[W1 EXCEPT !.node[r].reqs =
                 [c \in DOMAIN reqs |->
                    IF reqs[c].source = s \/ reqs[c].source = AnySource
                    THEN [reqs[c] EXCEPT !.waiting = @ - 1] ELSE reqs[c]]]}
     ELSE {W1}

\* process_invalidated without the remove.
process_invalidated_keeps(W, r, s, m) == {W}

\* process_invalidated
process_invalidated(W, r, s, m) ==
  {[W EXCEPT !.node[r].S = remove(@, m.key)]}

\* get_response(source, n_waiting, request) up to its first call of
\* handler_.run(): the request is registered and the loop is entered.
get_response(W, r, c, k, source, n_waiting, frame) ==
  LET reqs == W.node[r].reqs
  IN [W EXCEPT !.node[r].reqs = [x \in DOMAIN reqs \cup {c} |->
                                   IF x = c
                                   THEN NewRequest(k, source, n_waiting, Doomed(W, k),
                                          IF source = AnySource
                                          THEN { i \in Ranks : W.node[r].alive_[i] }
                                          ELSE {source})
                                   ELSE reqs[x]],
               !.node[r].stack = Append(@, [frame EXCEPT !.req = c])]

\* process_inserted without the pull of the value.
process_inserted_no_pull(W, r, s, m) ==
  {[W EXCEPT !.node[r].S = remove(@, m.key)]}

\* process_inserted without the remove.
process_inserted_keeps(W, r, s, m) ==
  LET c == W.node[r].request_counter_
  IN IF ~W.node[r].filter THEN {W}
     ELSE LET W2 == get_response(W, r, c, m.key, s, 1,
                      [kind |-> "pull", req |-> 0, key |-> m.key, keep |-> FALSE,
                       phase |-> 1, src |-> None, pre |-> FALSE])
              W3 == [W2 EXCEPT !.node[r].request_counter_ = @ + 1]
          IN {Send(W3, r, s, Msg("request", m.key, 0, c, FALSE, <<>>))}

\* process_inserted up to the call of handler_.run() inside get_response.
process_inserted(W, r, s, m) ==
  LET W1 == [W EXCEPT !.node[r].S = remove(@, m.key)]
      c == W.node[r].request_counter_
  IN IF ~W.node[r].filter THEN {W1}
     ELSE LET W2 == get_response(W1, r, c, m.key, s, 1,
                      [kind |-> "pull", req |-> 0, key |-> m.key, keep |-> FALSE,
                       phase |-> 1, src |-> None, pre |-> FALSE])
              W3 == [W2 EXCEPT !.node[r].request_counter_ = @ + 1]
          IN {Send(W3, r, s, Msg("request", m.key, 0, c, FALSE, <<>>))}

\* process_change_key
process_change_key(W, r, s, m) ==
  { [W EXCEPT !.node[r].S = S2] : S2 \in change_key(W.node[r].S, m.key, m.key2) }

\* process_request
process_request(W, r, s, m) ==
  {Send(W, r, s, Msg("response", m.key, 0, m.counter,
                     is_available(W.node[r].S, m.key), <<>>))}

\* process_response without the test alive_requests_.count(request) > 0: the
\* maps get an entry for a request that is not in flight.
process_response_unchecked(W, r, s, m) ==
  LET reqs == W.node[r].reqs
      q == IF Registered(W.node[r], m) THEN reqs[m.counter]
           ELSE NewRequest(m.key, None, 0, FALSE, {})
  IN {[W EXCEPT !.node[r].reqs =
         [c \in DOMAIN reqs \cup {m.counter} |->
            IF c # m.counter THEN reqs[c]
            ELSE [q EXCEPT !.waiting = @ - 1,
                           !.found = IF m.flag THEN s ELSE @,
                           !.neg = IF m.flag THEN @ ELSE @ \cup {s}]]]}

\* process_response that looks the request up by its key alone.
process_response_by_key(W, r, s, m) ==
  LET reqs == W.node[r].reqs
  IN {[W EXCEPT !.node[r].reqs =
         [c \in DOMAIN reqs |->
            IF reqs[c].key # m.key THEN reqs[c]
            ELSE [reqs[c] EXCEPT !.waiting = @ - 1,
                                 !.found = IF m.flag THEN s ELSE @,
                                 !.neg = IF m.flag THEN @ ELSE @ \cup {s}]]]}

\* process_response
process_response(W, r, s, m) ==
  IF ~Registered(W.node[r], m) THEN {W}
  ELSE {[W EXCEPT !.node[r].reqs[m.counter] =
           [@ EXCEPT !.waiting = @ - 1,
                     !.found = IF m.flag THEN s ELSE @,
                     !.neg = IF m.flag THEN @ ELSE @ \cup {s}]]}

\* process_request_data that answers valid = true whether it holds the key or
\* not.
process_request_data_always_valid(W, r, s, m) ==
  IF ~is_available(W.node[r].S, m.key)
  THEN {Send(W, r, s, Msg("response_data", m.key, 0, m.counter, TRUE, <<>>))}
  ELSE { Send([W EXCEPT !.node[r].S = R.S], r, s,
              Msg("response_data", m.key, 0, m.counter, TRUE, R.data)) :
         R \in load_raw(W.node[r].S, m.key, FALSE) }

\* process_request_data that gives the object away: the key is removed once
\* its bytes are sent.
process_request_data_moves(W, r, s, m) ==
  IF ~is_available(W.node[r].S, m.key)
  THEN {Send(W, r, s, Msg("response_data", m.key, 0, m.counter, FALSE, <<>>))}
  ELSE { Send([W EXCEPT !.node[r].S = remove(R.S, m.key)], r, s,
              Msg("response_data", m.key, 0, m.counter, TRUE, R.data)) :
         R \in load_raw(W.node[r].S, m.key, FALSE) }

\* process_request_data
process_request_data(W, r, s, m) ==
  IF ~is_available(W.node[r].S, m.key)
  THEN {Send(W, r, s, Msg("response_data", m.key, 0, m.counter, FALSE, <<>>))}
  ELSE { Send([W EXCEPT !.node[r].S = R.S], r, s,
              Msg("response_data", m.key, 0, m.counter, TRUE, R.data)) :
         R \in load_raw(W.node[r].S, m.key, FALSE) }

\* process_response_data
process_response_data(W, r, s, m) ==
  IF ~Registered(W.node[r], m) THEN {W}
  ELSE {[W EXCEPT !.node[r].reqs[m.counter] =
           [@ EXCEPT !.found = s,
                     !.valid = IF m.flag THEN "true" ELSE "false",
                     !.data = IF m.flag THEN m.data ELSE @]]}

\* The handler registered for the tag of m (constructor, l.42-65).
Handle(W, r, s, m) ==
  CASE m.tag = "alive" -> process_alive(W, r, s, m)
    [] m.tag = "invalidated" -> process_invalidated(W, r, s, m)
    [] m.tag = "inserted" -> process_inserted(W, r, s, m)
    [] m.tag = "change_key" -> process_change_key(W, r, s, m)
    [] m.tag = "request" -> process_request(W, r, s, m)
    [] m.tag = "response" -> process_response(W, r, s, m)
    [] m.tag = "request_data" -> process_request_data(W, r, s, m)
    [] m.tag = "response_data" -> process_response_data(W, r, s, m)

\* iprobe() on rank r finds nothing.
InboxEmpty(W, r) == \A s \in Ranks : W.net[<<s, r>>] = <<>>

\* The end of get_response (l.319-330) and what its caller does with the
\* result: load_raw l.148-155, process_inserted l.216-221.  got is "true"
\* when responses_data_valid_[&request] holds.
Return(W, r, got) ==
  LET N == W.node[r]
      f == N.stack[Len(N.stack)]
      q == N.reqs[f.req]
      W1 == [W EXCEPT !.node[r].reqs = [x \in DOMAIN N.reqs \ {f.req} |-> N.reqs[x]],
                      !.node[r].stack = SubSeq(@, 1, Len(@) - 1)]
  IN IF got # "true"
     THEN {IF f.kind = "load"
           THEN [EndLoad(W1, r, f.key, 0, <<>>, f.pre, TRUE, q.doomed)
                   EXCEPT !.res[r].owed =
                            { i \in q.asked \ q.neg : N.alive_[i] /\ W.node[i].up }]
           ELSE EndPull(W1, r, f.key, FALSE, q.doomed)}
     ELSE IF f.kind = "pull"
     THEN { EndPull([W1 EXCEPT !.node[r].S = S2], r, f.key, TRUE, q.doomed) :
            S2 \in insert_raw(N.S, f.key, q.data, FALSE) }
     ELSE UNION { { EndLoad([W1 EXCEPT !.node[r].S = R.S], r, f.key, R.ret, R.data,
                            f.pre, TRUE, q.doomed) :
                    R \in load_raw(S2, f.key, f.keep) } :
                  S2 \in insert_raw(N.S, f.key, q.data, TRUE) }

\* get_response, l.305-317: the loop conditions evaluated when handler_.run()
\* has returned.  The set is empty while the loop goes on.
LoopExit(W, r) ==
  LET N == W.node[r]
      f == N.stack[Len(N.stack)]
      q == N.reqs[f.req]
  IN IF f.phase = 1
     THEN IF q.waiting > 0 /\ q.found = None THEN {}
          ELSE IF q.found = None THEN Return(W, r, "false")
          ELSE LET W1 == Send(W, r, q.found,
                              Msg("request_data", f.key, 0, f.req, FALSE, <<>>))
               IN IF q.valid = "none" /\ N.alive_[q.found]
                  THEN {[W1 EXCEPT !.node[r].stack[Len(N.stack)] =
                                      [f EXCEPT !.phase = 2, !.src = q.found]]}
                  ELSE Return(W1, r, q.valid)
     ELSE IF q.valid = "none" /\ N.alive_[f.src] THEN {}
          ELSE Return(W, r, q.valid)

\* remote_insert_filter_: the ranks whose filter accepts every key; the
\* others keep the filter of clear_insert_filter().
Filters == {{}, {0}}

NoLog ==
  [ins |-> [k \in Keys |-> 0], owner |-> [k \in Keys |-> None],
   val |-> [k \in Keys |-> <<>>], touched |-> [k \in Keys |-> FALSE],
   rem |-> [key |-> 0, by |-> None, held |-> {}, reloaded |-> {}, quiet |-> FALSE],
   lins |-> [key |-> 0, by |-> None, older |-> {}, reloaded |-> {}, race |-> {}]]

\* The world after every rank has built its archive and has pumped until the
\* alive messages of the constructors were received.
InitMPI ==
  /\ \E S0 \in Constructor([p \in Paths |-> <<>>]), F \in Filters :
       mpi = [node |-> [r \in Ranks |->
                          [up |-> TRUE, S |-> S0,
                           alive_ |-> [i \in Ranks |-> i # r],
                           request_counter_ |-> 0, filter |-> r \in F,
                           stack |-> <<>>, reqs |-> [x \in {} |-> 0]]],
              net |-> [p \in Ranks \X Ranks |-> <<>>],
              ops |-> 0,
              res |-> [r \in Ranks |-> NoRes],
              pul |-> [r \in Ranks |-> NoPull],
              log |-> NoLog,
              unborn |-> {}]
  /\ \E S \in Constructor([p \in Paths |-> <<>>]) :
        /\ objects_ = S.objects_
        /\ LRU_ = S.LRU_
        /\ must_rebuild_file_ = S.must_rebuild_file_
        /\ max_buffer_size_ = S.max_buffer_size_
        /\ buffer_size_ = S.buffer_size_
        /\ filename_ = S.filename_
        /\ temporary_file_ = S.temporary_file_
        /\ disk = S.disk
        /\ status = S.status
  /\ last = Call("construct", 0, 0, 0, <<>>)
  /\ inserted = NoInserted
  /\ overwritten = NoOverwrite
  /\ at_close = NoClose
  /\ calls = 0
  /\ plain = "no"
  /\ thr = NoThreads

Local == <<objects_, LRU_, must_rebuild_file_, max_buffer_size_, buffer_size_,
           filename_, temporary_file_, disk, status, last, inserted, overwritten,
           at_close, calls, plain, thr>>

\* handler_.run() at the head of a public method has returned on rank r and
\* the caller is not inside another method.
Ready(r) ==
  /\ mpi.node[r].up /\ mpi.node[r].S.status = "ok"
  /\ mpi.node[r].stack = <<>>
  /\ InboxEmpty(mpi, r)
  /\ mpi.ops < MaxOps

Op(W) == [W EXCEPT !.ops = @ + 1]

\* No message is on its way and no rank is inside get_response.
Quiet ==
  /\ \A p \in DOMAIN mpi.net : mpi.net[p] = <<>>
  /\ \A r \in Ranks : mpi.node[r].stack = <<>>

\* The payload of the insert of key k after n inserts of k: keys and later
\* inserts differ in their bytes.
Value(k, n) == [i \in 1..(1 + ((k + n) % MaxLen)) |-> i]

\* MPIObjectArchive::insert_raw, l.110-116: what it does to the archive of
\* the rank.
mpi_insert_raw(S, k, data, keep_in_buffer) ==
  { IF ~keep_in_buffer THEN write_back(S1, k) ELSE S1 :
    S1 \in insert_raw(S, k, data, TRUE) }

\* MPIObjectArchive::insert_raw after its call of handler_.run().  race
\* (observer): the ranks whose announcement of an insert of k has not been
\* received by rank r.
MInsertBody(r, k) ==
  /\ \E keep \in BOOLEAN :
       \E S1 \in mpi_insert_raw(mpi.node[r].S, k, Value(k, mpi.log.ins[k]), keep) :
         LET v == Value(k, mpi.log.ins[k])
             W1 == broadcast_others(mpi, r, Msg("inserted", k, 0, 0, FALSE, <<>>), TRUE)
         IN mpi' = Op([W1 EXCEPT !.node[r].S = S1,
                                 !.log.ins[k] = @ + 1,
                                 !.log.owner[k] = r,
                                 !.log.val[k] = v,
                                 !.log.rem = IF @.key = k THEN NoLog.rem ELSE @,
                                 !.log.lins =
                                   [key |-> k, by |-> r,
                                    older |-> { i \in Ranks \ {r} :
                                                  /\ mpi.node[i].up
                                                  /\ is_available(mpi.node[i].S, k) },
                                    reloaded |-> { i \in Ranks :
                                                     mpi.node[i].stack # <<>> },
                                    race |-> { s \in Ranks :
                                      \E j \in 1..Len(mpi.net[<<s, r>>]) :
                                        /\ mpi.net[<<s, r>>][j].tag = "inserted"
                                        /\ mpi.net[<<s, r>>][j].key = k }]])
  /\ UNCHANGED Local

\* MPIObjectArchive::insert_raw: handler_.run() has received every message
\* sent to rank r.
MInsert(r, k) ==
  /\ Ready(r)
  /\ MInsertBody(r, k)

\* MPIObjectArchive::insert_raw while the messages sent to rank r have not
\* reached it: handler_.run() at the head of the method finds nothing.
MInsertEarly(r, k) ==
  /\ mpi.node[r].up /\ mpi.node[r].S.status = "ok"
  /\ mpi.node[r].stack = <<>>
  /\ ~InboxEmpty(mpi, r)
  /\ mpi.ops < MaxOps
  /\ MInsertBody(r, k)

\* MPIObjectArchive::remove
MRemove(r, k) ==
  /\ Ready(r)
  /\   LET W1 == broadcast_others(mpi, r, Msg("invalidated", k, 0, 0, FALSE, <<>>), TRUE)
       IN mpi' = Op([W1 EXCEPT !.node[r].S = remove(@, k),
                               !.log.touched[k] = TRUE,
                               !.log.lins = IF @.key = k THEN NoLog.lins ELSE @,
                               !.log.rem =
                                 [key |-> k, by |-> r,
                                  held |-> { i \in Ranks \ {r} :
                                               /\ mpi.node[i].up
                                               /\ is_available(mpi.node[i].S, k) },
                                  reloaded |-> {},
                                  quiet |-> Quiet]])
  /\ UNCHANGED Local

\* MPIObjectArchive::change_key
MChangeKey(r, old, new) ==
  /\ Ready(r)
  /\ old # new
  /\   \E S1 \in change_key(mpi.node[r].S, old, new) :
         LET W1 == broadcast_others(mpi, r, Msg("change_key", old, new, 0, FALSE, <<>>),
                                    TRUE)
         IN mpi' = Op([W1 EXCEPT !.node[r].S = S1,
                                 !.log.touched[old] = TRUE,
                                 !.log.touched[new] = TRUE,
                                 !.log.lins = NoLog.lins])
  /\ UNCHANGED Local

\* MPIObjectArchive::load_raw up to the call of handler_.run() inside
\* get_response, or to its return when the object is here or nobody is alive.
MLoad(r, k) ==
  /\ Ready(r)
  /\ \E keep \in BOOLEAN :
       \E R \in load_raw(mpi.node[r].S, k, keep) :
         LET N == mpi.node[r]
             pre == /\ mpi.log.ins[k] = 1 /\ mpi.log.owner[k] # r
                    /\ ~mpi.log.touched[k] /\ ~is_available(N.S, k)
             c == N.request_counter_
             n_waiting == Cardinality({ i \in Ranks : N.alive_[i] })
             W1 == Op([mpi EXCEPT !.node[r].S = R.S,
                                  !.log.rem.reloaded =
                                    IF mpi.log.rem.key = k THEN @ \cup {r} ELSE @,
                                  !.log.lins.reloaded =
                                    IF mpi.log.lins.key = k THEN @ \cup {r} ELSE @])
             W2 == broadcast_others([W1 EXCEPT !.node[r].request_counter_ = @ + 1], r,
                                    Msg("request", k, 0, c, FALSE, <<>>), TRUE)
         IN mpi' = IF R.ret # 0 THEN EndLoad(W1, r, k, R.ret, R.data, pre, FALSE, FALSE)
                   ELSE IF ~(n_waiting > 0)
                   THEN EndLoad(W2, r, k, 0, <<>>, pre, TRUE, Doomed(mpi, k))
                   ELSE get_response(W2, r, c, k, AnySource, n_waiting,
                          [kind |-> "load", req |-> 0, key |-> k, keep |-> keep,
                           phase |-> 1, src |-> None, pre |-> pre])
  /\ UNCHANGED Local

\* MPIObjectArchive::~MPIObjectArchive, then ~ObjectArchive
MDestroy(r) ==
  /\ Ready(r)
  /\ \E S1 \in Destructor(mpi.node[r].S) :
       LET W1 == broadcast_others(mpi, r, Msg("alive", 0, 0, 0, FALSE, <<>>), FALSE)
           W2 == [W1 EXCEPT !.node[r].S = S1, !.node[r].up = FALSE,
                            !.net = [p \in DOMAIN W1.net |->
                                       IF p[2] = r THEN <<>> ELSE W1.net[p]]]
       IN mpi' = Op([W2 EXCEPT !.node =
                       [i \in Ranks |->
                          [W2.node[i] EXCEPT !.reqs =
                             [c \in DOMAIN W2.node[i].reqs |->
                                [W2.node[i].reqs[c] EXCEPT !.doomed =
                                   @ \/ Doomed(W2, W2.node[i].reqs[c].key)]]]]])
  /\ UNCHANGED Local

\* handler_.run(): iprobe() finds a message of rank s and the handler of its
\* tag receives it.
MDeliver(r) ==
  /\ mpi.node[r].up /\ mpi.node[r].S.status = "ok"
  /\ \E s \in Ranks :
       /\ mpi.net[<<s, r>>] # <<>>
       /\ \E W2 \in Handle([mpi EXCEPT !.net[<<s, r>>] = Tail(@)], r, s,
                           Head(mpi.net[<<s, r>>])) :
            mpi' = W2
  /\ UNCHANGED Local

\* handler_.run() returns inside get_response: iprobe() found nothing, and the
\* loop condition lets the loop end.
MLoopExit(r) ==
  /\ mpi.node[r].up /\ mpi.node[r].S.status = "ok"
  /\ mpi.node[r].stack # <<>>
  /\ InboxEmpty(mpi, r)
  /\ \E W2 \in LoopExit(mpi, r) : mpi' = W2
  /\ UNCHANGED Local

\* The ranks insert, load and remove one key and come and go.
TheKey == {1}

\* The rank that inserts when one rank does.
Owner == 1

NextMPI ==
  \/ \E r \in Ranks, k \in TheKey : MInsert(r, k)
  \/ \E r \in Ranks, k \in TheKey : MRemove(r, k)
  \/ \E r \in Ranks, k \in TheKey : MLoad(r, k)
  \/ \E r \in Ranks : MDestroy(r)
  \/ \E r \in Ranks : MDeliver(r)
  \/ \E r \in Ranks : MLoopExit(r)

SpecMPI == InitMPI /\ [][NextMPI]_vars

\* Rank Owner inserts every key and the ranks change keys.
NextMPIKeys ==
  \/ \E k \in Keys : MInsert(Owner, k)
  \/ \E r \in Ranks, old \in Keys, new \in Keys : MChangeKey(r, old, new)
  \/ \E r \in Ranks : MDeliver(r)
  \/ \E r \in Ranks : MLoopExit(r)

SpecMPIKeys == InitMPI /\ [][NextMPIKeys]_vars

\* Lookups of the key rank Owner inserted: the other ranks load it, any rank
\* may be destroyed.

NextLookup ==
  \/ \E k \in TheKey : MInsert(Owner, k)
  \/ \E r \in Ranks \ {Owner}, k \in TheKey : MLoad(r, k)
  \/ \E r \in Ranks : MDestroy(r)
  \/ \E r \in Ranks : MDeliver(r)
  \/ \E r \in Ranks : MLoopExit(r)

\* Every rank pumps its dispatcher: a rank inside get_response calls
\* handler_.run() until the loop ends, and an idle rank calls it again and
\* again.
FairLookup ==
  /\ InitMPI /\ [][NextLookup]_vars
  /\ \A r \in Ranks : WF_vars(MDeliver(r)) /\ WF_vars(MLoopExit(r))

\* Inserts of one key; those of rank Owner may overtake the messages on
\* their way to it.
NextRace ==
  \/ \E r \in Ranks, k \in TheKey : MInsert(r, k)
  \/ \E k \in TheKey : MInsertEarly(Owner, k)
  \/ \E r \in Ranks : MDeliver(r)
  \/ \E r \in Ranks : MLoopExit(r)

SpecRace == InitMPI /\ [][NextRace]_vars

\* The world before any rank has built its archive.
InitHandshake ==
  /\ InitMPI!2
  /\ InitMPI!3 /\ InitMPI!4 /\ InitMPI!5 /\ InitMPI!6 /\ InitMPI!7 /\ InitMPI!8
  /\ InitMPI!9
  /\ \E S0 \in Constructor([p \in Paths |-> <<>>]) :
       mpi = [node |-> [r \in Ranks |->
                          [up |-> FALSE, S |-> S0,
                           alive_ |-> [i \in Ranks |-> FALSE],
                           request_counter_ |-> 0, filter |-> FALSE,
                           stack |-> <<>>, reqs |-> [x \in {} |-> 0]]],
              net |-> [p \in Ranks \X Ranks |-> <<>>],
              ops |-> 0,
              res |-> [r \in Ranks |-> NoRes],
              pul |-> [r \in Ranks |-> NoPull],
              log |-> NoLog,
              unborn |-> Ranks]

\* MPIObjectArchive::MPIObjectArchive on rank r, up to its call of
\* handler_.run().
MConstruct(r) ==
  /\ r \in mpi.unborn
  /\ mpi' = broadcast_others([mpi EXCEPT !.unborn = @ \ {r}, !.node[r].up = TRUE],
                             r, Msg("alive", 0, 0, 0, TRUE, <<>>), FALSE)
  /\ UNCHANGED Local

NextHandshake ==
  \/ \E r \in Ranks : MConstruct(r)
  \/ \E r \in Ranks : MDestroy(r)
  \/ \E r \in Ranks : MDeliver(r)

\* Every rank keeps calling handler_.run().
FairHandshake ==
  /\ InitHandshake /\ [][NextHandshake]_vars
  /\ \A r \in Ranks : WF_vars(MDeliver(r))

\* The ranks build their archives and are destroyed; rank Owner inserts,
\* removes and renames one key and the others load it.
NextLife ==
  \/ \E r \in Ranks : MConstruct(r)
  \/ \E k \in TheKey : MInsert(Owner, k)
  \/ \E k \in TheKey : MRemove(Owner, k)
  \/ \E old \in TheKey, new \in Keys : MChangeKey(Owner, old, new)
  \/ \E r \in Ranks \ {Owner}, k \in TheKey : MLoad(r, k)
  \/ \E r \in Ranks : MDestroy(r)
  \/ \E r \in Ranks : MDeliver(r)
  \/ \E r \in Ranks : MLoopExit(r)

SpecLife == InitHandshake /\ [][NextLife]_vars

\* Rank Owner has inserted key 1 twice and key 2 once; rank 0 has set its
\* buffer size to m and has loaded key 1 from rank Owner.
InitFetch ==
  /\ InitMPI!2
  /\ InitMPI!3 /\ InitMPI!4 /\ InitMPI!5 /\ InitMPI!6 /\ InitMPI!7 /\ InitMPI!8
  /\ InitMPI!9
  /\ \E S0 \in Constructor([p \in Paths |-> <<>>]), m \in BufSizes :
       \E SO \in UNION { mpi_insert_raw(S2, 2, Value(2, 0), FALSE) :
                         S2 \in UNION { mpi_insert_raw(S1, 1, Value(1, 1), FALSE) :
                                        S1 \in mpi_insert_raw(S0, 1, Value(1, 0), FALSE) } },
          SB \in UNION { { R.S : R \in load_raw(S2, 1, TRUE) } :
                         S2 \in UNION { insert_raw(S1, 1, Value(1, 1), TRUE) :
                                        S1 \in set_buffer_size(S0, m) } } :
         mpi = [node |-> [r \in Ranks |->
                            [up |-> TRUE,
                             S |-> IF r = Owner THEN SO ELSE IF r = 0 THEN SB ELSE S0,
                             alive_ |-> [i \in Ranks |-> i # r],
                             request_counter_ |-> IF r = 0 THEN 1 ELSE 0,
                             filter |-> FALSE,
                             stack |-> <<>>, reqs |-> [x \in {} |-> 0]]],
                net |-> [p \in Ranks \X Ranks |-> <<>>],
                ops |-> 0,
                res |-> [r \in Ranks |-> NoRes],
                pul |-> [r \in Ranks |-> NoPull],
                log |-> [NoLog EXCEPT
                           !.ins = [k \in Keys |-> IF k = 1 THEN 2 ELSE IF k = 2 THEN 1 ELSE 0],
                           !.owner = [k \in Keys |-> IF k <= 2 THEN Owner ELSE None],
                           !.val = [k \in Keys |-> IF k = 1 THEN Value(1, 1)
                                                   ELSE IF k = 2 THEN Value(2, 0)
                                                   ELSE <<>>]],
                unborn |-> {}]

\* Rank Owner inserts, the other ranks load, rank Owner may be destroyed.
NextFetch ==
  \/ \E k \in Keys : MInsert(Owner, k)
  \/ \E r \in Ranks \ {Owner}, k \in Keys : MLoad(r, k)
  \/ MDestroy(Owner)
  \/ \E r \in Ranks : MDeliver(r)
  \/ \E r \in Ranks : MLoopExit(r)

SpecFetch == InitFetch /\ [][NextFetch]_vars

\* mpi_process() of the archive that pumps without an MPIHandler: the tags
\* its loop has a branch for.
mpi_process_tags == {"alive", "invalidated", "inserted", "request", "request_data"}

\* Every rank has built its archive; no rank has an insert filter.
InitPump ==
  /\ InitMPI
  /\ \A r \in Ranks : ~mpi.node[r].filter

\* Another subsystem of rank s sends rank r a message with a tag of its own.
POther(s, r) ==
  /\ s # r /\ mpi.node[s].up /\ mpi.node[r].up
  /\ mpi.ops < MaxOps
  /\ mpi' = Op(Send(mpi, s, r, Msg("other", 0, 0, 0, FALSE, <<>>)))
  /\ UNCHANGED Local

\* Rank r calls mpi_process().
PEnter(r) ==
  /\ mpi.node[r].up /\ mpi.node[r].S.status = "ok"
  /\ mpi.node[r].stack = <<>>
  /\ mpi' = [mpi EXCEPT !.node[r].stack =
               <<[kind |-> "pump", req |-> 0, key |-> 0, keep |-> FALSE,
                  phase |-> 0, src |-> None, pre |-> FALSE]>>]
  /\ UNCHANGED Local

\* mpi_process(): iprobe() finds a message of rank s whose tag has a branch;
\* the branch receives it and calls its handler.  Without an insert filter
\* process_inserted does nothing.
PStep(r) ==
  /\ mpi.node[r].up /\ mpi.node[r].S.status = "ok"
  /\ mpi.node[r].stack # <<>> /\ mpi.node[r].stack[1].kind = "pump"
  /\ \E s \in Ranks :
       /\ mpi.net[<<s, r>>] # <<>>
       /\ Head(mpi.net[<<s, r>>]).tag \in mpi_process_tags
       /\ LET m == Head(mpi.net[<<s, r>>])
              W1 == [mpi EXCEPT !.net[<<s, r>>] = Tail(@)]
          IN \E W2 \in IF m.tag = "inserted" THEN {W1} ELSE Handle(W1, r, s, m) :
               mpi' = W2
  /\ UNCHANGED Local

\* mpi_process() that receives the message whose tag has no branch before it
\* stops.
PExit_consumes(r) ==
  /\ mpi.node[r].up /\ mpi.node[r].S.status = "ok"
  /\ mpi.node[r].stack # <<>> /\ mpi.node[r].stack[1].kind = "pump"
  /\ \/ InboxEmpty(mpi, r) /\ mpi' = [mpi EXCEPT !.node[r].stack = <<>>]
     \/ \E s \in Ranks : /\ mpi.net[<<s, r>>] # <<>>
                         /\ Head(mpi.net[<<s, r>>]).tag \notin mpi_process_tags
                         /\ mpi' = [mpi EXCEPT !.node[r].stack = <<>>,
                                               !.net[<<s, r>>] = Tail(@)]
  /\ UNCHANGED Local

\* mpi_process(): iprobe() finds nothing, or a message whose tag has no
\* branch: stop = true.
PExit(r) ==
  /\ mpi.node[r].up /\ mpi.node[r].S.status = "ok"
  /\ mpi.node[r].stack # <<>> /\ mpi.node[r].stack[1].kind = "pump"
  /\ \/ InboxEmpty(mpi, r)
     \/ \E s \in Ranks : /\ mpi.net[<<s, r>>] # <<>>
                         /\ Head(mpi.net[<<s, r>>]).tag \notin mpi_process_tags
  /\ mpi' = [mpi EXCEPT !.node[r].stack = <<>>]
  /\ UNCHANGED Local

\* The ranks insert and remove one key when mpi_process() at the head of the
\* method has left nothing to receive, and call mpi_process() when idle.
NextPump ==
  \/ \E r \in Ranks, k \in TheKey : MInsert(r, k)
  \/ \E r \in Ranks, k \in TheKey : MRemove(r, k)
  \/ \E s \in Ranks, r \in Ranks : POther(s, r)
  \/ \E r \in Ranks : PEnter(r)
  \/ \E r \in Ranks : PStep(r)
  \/ \E r \in Ranks : PExit(r)

SpecPump == InitPump /\ [][NextPump]_vars

\* ------------------------------------------------------ distributed claims
\* is_available on rank r: MPIObjectArchive does not override it, the answer
\* is the one of the local archive and no message is received.
Holds(r, k) == is_available(mpi.node[r].S, k)

\* C12: a load(k) of rank B, issued after the only insert of k (on another
\* rank A) while B did not hold k, returns the size and the bytes A inserted
\* when A and B stayed alive and nobody removed, re-inserted or re-keyed k.
RemoteFetch ==
  \A r \in Ranks :
    LET x == mpi.res[r]
    IN (/\ x.key # 0 /\ x.pre
        /\ mpi.log.ins[x.key] = 1 /\ ~mpi.log.touched[x.key]
        /\ mpi.node[r].up /\ mpi.node[mpi.log.owner[x.key]].up)
         => /\ x.ret = Len(mpi.log.val[x.key])
            /\ x.data = mpi.log.val[x.key]

RemoveBroadcast ==
  (mpi.log.rem.key # 0 /\ Quiet)
    => \A i \in mpi.log.rem.held : mpi.node[i].up => ~Holds(i, mpi.log.rem.key)

\* C14 amended: the same when remove was called while no message was on its
\* way, for the ranks that have not called load(k) since.
RemoveBroadcastUnlessLoaded ==
  (mpi.log.rem.key # 0 /\ mpi.log.rem.quiet /\ Quiet)
    => \A i \in mpi.log.rem.held \ mpi.log.rem.reloaded :
         mpi.node[i].up => ~Holds(i, mpi.log.rem.key)

\* C14 witness: the remove reached two ranks that held the key, none of them
\* loaded it again and every message is received.
RemoveBroadcastWitness ==
  /\ mpi.log.rem.key # 0 /\ Quiet
  /\ Cardinality(mpi.log.rem.held) = 2
  /\ mpi.log.rem.reloaded = {} /\ mpi.log.rem.quiet
  /\ \A i \in mpi.log.rem.held : mpi.node[i].up

Pulled(k) ==
  /\ mpi.node[0].up /\ mpi.node[0].filter
  /\ mpi.log.ins[k] = 1 /\ mpi.log.owner[k] # 0 /\ ~mpi.log.touched[k]

\* Rank 0 holds k and a load of k there returns the inserted bytes.
Has0(k) ==
  /\ Holds(0, k)
  /\ \A keep \in BOOLEAN : \A R \in load_raw(mpi.node[0].S, k, keep) :
        R.ret = Len(mpi.log.val[k]) /\ R.data = mpi.log.val[k]

ReceivesChangeKey(r, s) ==
  /\ mpi.node[r].up /\ mpi'.node[r].up
  /\ mpi.net[<<s, r>>] # <<>>
  /\ Head(mpi.net[<<s, r>>]).tag = "change_key"
  /\ mpi'.net[<<s, r>>] = Tail(mpi.net[<<s, r>>])

\* C17: when a rank that holds old processes the change_key(old, new) of
\* another rank, load(new) returns there the bytes it stored under old, and
\* old is not available any more.
DistributedChangeKey ==
  [][\A r \in Ranks, s \in Ranks :
       LET m == Head(mpi.net[<<s, r>>])
       IN (ReceivesChangeKey(r, s) /\ Holds(r, m.key))
            => /\ ~is_available(mpi'.node[r].S, m.key)
               /\ \A R \in load_raw(mpi.node[r].S, m.key, FALSE) :
                    \A R2 \in load_raw(mpi'.node[r].S, m.key2, FALSE) :
                      R2.ret = R.ret /\ R2.data = R.data]_vars

\* C21: unload(d), and the evictions made by insert and load, return and
\* evict resident entries in least recently used order (every entry that
\* stays resident is in front of every evicted one in LRU_); unload(d)
\* stops as soon as buffer_size_ <= d and changes nothing when
\* buffer_size_ <= d holds at the call.
LRUEviction ==
  LET Before(a, b) == \E i, j \in 1..Len(LRU_) :
                         i < j /\ LRU_[i] = Ptr(a) /\ LRU_[j] = Ptr(b)
      Evicted(R, own) == { k \in Available \ own : Resident(Self, k) /\ ~Resident(R, k) }
      Stays(R, own) == { k \in Available \ own : Resident(Self, k) /\ Resident(R, k) }
      InOrder(R, own) ==
        /\ R.status = "ok"
        /\ \A e \in Evicted(R, own), s \in Stays(R, own) : Before(s, e)
  IN Returned =>
       /\ \A d \in BufSizes : \A R \in unload(Self, d) :
            /\ InOrder(R, {})
            /\ R.buffer_size_ <= d
            /\ buffer_size_ <= d => R = Self
            /\ Evicted(R, {}) # {} =>
                 \E e \in Evicted(R, {}) :
                   /\ \A e2 \in Evicted(R, {}) \ {e} : Before(e, e2)
                   /\ R.buffer_size_ + objects_[e].size > d
       /\ \A k \in Keys, v \in Payloads, keep \in BOOLEAN :
            \A R \in insert_raw(Self, k, v, keep) : InOrder(R, {k})
       /\ \A k \in Keys, keep \in BOOLEAN :
            \A R \in load_raw(Self, k, keep) : InOrder(R.S, {k})

\* C22: while an archive opened on the named file has only been asked to
\* load, unload and set_buffer_size, must_rebuild_file_ is false and no call
\* changes a byte of the file or the bytes a key holds; a load returns those
\* bytes; destroying the archive leaves the file as it is, and an archive
\* opened on it afterwards loads the same bytes for every key.
ReadOnlySession ==
  /\ [](( plain = "read" /\ filename_ = "named" /\ status \in {"ok", "closed"})
          => /\ status = "ok" => ~must_rebuild_file_
             /\ status = "closed" =>
                  \A S \in Reopen(disk) : \A k \in Keys, keep \in BOOLEAN :
                    \A R \in load_raw(S, k, keep) :
                      /\ R.ret = Len(at_close.content[k])
                      /\ R.data = at_close.content[k])
  /\ [][(plain \in {"config", "read"} /\ filename_ = "named" /\ calls' = calls + 1
           /\ last'.op \in {"load", "unload", "set_buffer_size", "destroy"})
          => /\ status' \in {"ok", "closed"}
             /\ disk' = disk
             /\ status' = "ok" =>
                  /\ DOMAIN objects_' = DOMAIN objects_
                  /\ \A k \in Keys : Content(Self', k) = Content(Self, k)
             /\ (last'.op = "load" /\ is_available(Self, last'.key)) =>
                  /\ last'.ret = Len(Content(Self, last'.key))
                  /\ last'.data = Content(Self, last'.key)]_vars

\* C22 witness: the archive was destroyed after a session of load, unload and
\* set_buffer_size calls only on a named file that held every key.
ReadOnlyWitness ==
  /\ status = "closed" /\ plain = "read"
  /\ at_close.valid
  /\ \A k \in Keys : at_close.content[k] # <<>>
  /\ \E k \in Keys : Len(at_close.content[k]) = MaxLen

\* C23: a load that missed here returns 0 only when every rank that was
\* marked alive when the request was sent has answered it negatively or
\* was seen to die.
JustifiedGiveUp ==
  \A r \in Ranks :
    (mpi.res[r].key # 0 /\ mpi.res[r].remote /\ mpi.res[r].ret = 0)
      => mpi.res[r].owed = {}

\* C24: after rank A inserted k and then removed it, once every message is
\* received and no rank is inside a lookup, is_available(k) is false on
\* every other rank that is up.
NoStaleReplica ==
  (mpi.log.rem.key # 0 /\ mpi.log.owner[mpi.log.rem.key] = mpi.log.rem.by /\ Quiet)
    => \A i \in Ranks \ {mpi.log.rem.by} :
         mpi.node[i].up => ~Holds(i, mpi.log.rem.key)

\* C24 amended: the same when A called remove while no message was on its
\* way and no rank was inside a lookup, for the ranks that have not called
\* load(k) since.
NoStaleReplicaAfterPull ==
  (/\ mpi.log.rem.key # 0 /\ mpi.log.owner[mpi.log.rem.key] = mpi.log.rem.by
   /\ mpi.log.rem.quiet /\ Quiet)
    => \A i \in Ranks \ ({mpi.log.rem.by} \cup mpi.log.rem.reloaded) :
         mpi.node[i].up => ~Holds(i, mpi.log.rem.key)

\* C24 witness: the filter of rank 0 pulled k from rank A and stored it, A
\* removed k afterwards, every message is received and rank 0 is up.
NoStaleReplicaWitness ==
  /\ mpi.log.rem.key # 0 /\ mpi.log.owner[mpi.log.rem.key] = mpi.log.rem.by
  /\ mpi.log.rem.quiet /\ Quiet
  /\ mpi.log.rem.held = {0} /\ mpi.log.rem.reloaded = {}
  /\ mpi.pul[0].key = mpi.log.rem.key /\ mpi.pul[0].stored
  /\ mpi.node[0].up /\ mpi.node[0].filter

\* C25: when a rank inserts k while the announcement of the insert of k by
\* another rank has not reached it (the first two inserts of k), then once
\* every message is received both ranks hold k, each with the bytes of its
\* own insert.
ConcurrentInserts ==
  LET L == mpi.log.lins
  IN (L.key # 0 /\ L.race # {} /\ mpi.log.ins[L.key] = 2 /\ Quiet)
       => /\ Holds(L.by, L.key)
          /\ Content(mpi.node[L.by].S, L.key) = Value(L.key, 1)
          /\ \A s \in L.race :
               /\ Holds(s, L.key)
               /\ Content(mpi.node[s].S, L.key) = Value(L.key, 0)

\* C26: when two threads have called insert at the same time and both calls
\* have returned, buffer_size_ is the sum of the sizes of the resident
\* entries, buffer_size_ <= max_buffer_size_, and every inserted key is
\* available with the bytes of one of its inserts.
MonitorAtomicity ==
  (\A w \in DOMAIN thr.pc : thr.pc[w] \in {"next", "done"})
    => /\ status = "ok"
       /\ buffer_size_ = ResidentSum(Self)
       /\ buffer_size_ <= max_buffer_size_
       /\ \A w \in DOMAIN thr.pc :
            /\ is_available(Self, thr.i[w] - 1)
            /\ Content(Self, thr.i[w] - 1)
                 \in { thr.arg[x].v : x \in { y \in DOMAIN thr.pc : thr.i[y] = thr.i[w] } }

\* C27: from every state of the archive, for every key, payload and
\* keep_in_buffer, MPIObjectArchive::insert_raw leaves the archive of the rank
\* in the states ObjectArchive::insert_raw leaves it in.
DelegationEquivalence ==
  Returned =>
    \A k \in Keys, v \in Payloads, keep \in BOOLEAN :
      mpi_insert_raw(Self, k, v, keep) = insert_raw(Self, k, v, keep)

\* C28: on every rank request_counter_ never decreases and grows by one with
\* every request registered, a new request carries the counter value no
\* request in flight has, and a response or response_data message changes
\* only the request in flight with its key and counter: no other request
\* changes and no lookup ends by it.
RequestIdentity ==
  /\ [](\A r \in Ranks : \A c \in DOMAIN mpi.node[r].reqs :
          c < mpi.node[r].request_counter_)
  /\ [][\A r \in Ranks :
          LET N == mpi.node[r]
              N2 == mpi'.node[r]
              new == DOMAIN N2.reqs \ DOMAIN N.reqs
          IN /\ N2.request_counter_ >= N.request_counter_
             /\ new # {} => /\ new = {N.request_counter_}
                            /\ N2.request_counter_ = N.request_counter_ + 1
             /\ \A s \in Ranks :
                  (/\ N.up /\ mpi.net[<<s, r>>] # <<>>
                   /\ Head(mpi.net[<<s, r>>]).tag \in {"response", "response_data"}
                   /\ mpi'.net[<<s, r>>] = Tail(mpi.net[<<s, r>>]))
                    => LET m == Head(mpi.net[<<s, r>>])
                       IN /\ N2.stack = N.stack
                          /\ N2.S = N.S /\ N2.alive_ = N.alive_
                          /\ DOMAIN N2.reqs = DOMAIN N.reqs
                          /\ \A c \in DOMAIN N.reqs :
                               (c # m.counter \/ N.reqs[c].key # m.key)
                                 => N2.reqs[c] = N.reqs[c]]_vars

\* C28 witness: a rank is inside the pull of k that an inserted message
\* started while it was inside a load of the same k; the pull has got its
\* response and the request of the load still waits for its own.
RequestIdentityWitness ==
  \E r \in Ranks :
    LET st == mpi.node[r].stack
    IN /\ Len(st) = 2
       /\ st[1].kind = "load" /\ st[2].kind = "pull" /\ st[1].key = st[2].key
       /\ st[1].req # st[2].req
       /\ mpi.node[r].reqs[st[2].req].found # None
       /\ mpi.node[r].reqs[st[1].req].found = None
       /\ mpi.node[r].reqs[st[1].req].waiting > 0

\* C29: with archives constructed in any order and every rank pumping, the
\* time comes after which no message waits for a rank that is up; a rank
\* answers alive(true) exactly when it took the sender for dead; and when no
\* message waits, every rank that is up has alive_[p] = true exactly for
\* the other ranks p that are up (false for a destroyed rank).
HandshakeConverges ==
  /\ <>[](\A s \in Ranks, r \in Ranks : mpi.node[r].up => mpi.net[<<s, r>>] = <<>>)
  /\ []((\A s \in Ranks, r \in Ranks : mpi.node[r].up => mpi.net[<<s, r>>] = <<>>)
          => \A q \in Ranks : \A p \in Ranks \ {q} :
               mpi.node[q].up => (mpi.node[q].alive_[p] = mpi.node[p].up))
  /\ [][\A r \in Ranks, s \in Ranks :
          (/\ mpi.node[r].up /\ mpi.net[<<s, r>>] # <<>>
           /\ Head(mpi.net[<<s, r>>]).tag = "alive"
           /\ mpi'.net[<<s, r>>] = Tail(mpi.net[<<s, r>>]))
            => LET m == Head(mpi.net[<<s, r>>])
               IN /\ mpi'.node[r].alive_[s] = m.flag
                  /\ Len(mpi'.net[<<r, s>>]) > Len(mpi.net[<<r, s>>])
                       <=> (m.flag /\ ~mpi.node[r].alive_[s]
                            /\ (mpi.node[s].up \/ s \in mpi.unborn))]_vars

\* C29 witness: every rank was constructed, one was destroyed, no message
\* waits and the two ranks that are up see each other alive.
HandshakeWitness ==
  /\ mpi.unborn = {}
  /\ Cardinality({ r \in Ranks : mpi.node[r].up }) = 2
  /\ \A s \in Ranks, r \in Ranks : mpi.node[r].up => mpi.net[<<s, r>>] = <<>>
  /\ \A q \in Ranks : \A p \in Ranks \ {q} :
       (mpi.node[q].up /\ mpi.node[p].up) => mpi.node[q].alive_[p]

\* C30: when a rank receives a response or response_data message whose key
\* and counter match no request in flight, the message is consumed and
\* nothing else changes: the archive, alive_, request_counter_, every request
\* in flight and every other queue stay as they are.
LateMessages ==
  [][\A r \in Ranks, s \in Ranks :
       (/\ mpi.node[r].up /\ mpi.net[<<s, r>>] # <<>>
        /\ Head(mpi.net[<<s, r>>]).tag \in {"response", "response_data"}
        /\ ~Registered(mpi.node[r], Head(mpi.net[<<s, r>>]))
        /\ mpi'.net[<<s, r>>] = Tail(mpi.net[<<s, r>>]))
         => mpi' = [mpi EXCEPT !.net[<<s, r>>] = Tail(@)]]_vars

\* C30 witness: a load of a key nobody ever inserted returned on rank r
\* before rank i had answered; since then i has received the request and r
\* has received the answer of i, which matched no request in flight.
LateMessagesWitness ==
  \E r \in Ranks :
    /\ mpi.node[r].up /\ mpi.node[r].stack = <<>>
    /\ mpi.node[r].request_counter_ = 1
    /\ mpi.res[r].key # 0 /\ mpi.log.ins[mpi.res[r].key] = 0
    /\ mpi.res[r].owed # {}
    /\ \A i \in mpi.res[r].owed :
         /\ mpi.node[i].up
         /\ mpi.net[<<r, i>>] = <<>> /\ mpi.net[<<i, r>>] = <<>>

\* C31: no rank ever has a message to itself on its way nor marks itself
\* alive; an invalidated, inserted or change_key message and the request of
\* a load are sent to exactly the ranks the sender marks alive; the
\* alive(true) of the constructor and the alive(false) of the destructor are
\* sent to every other rank.  (A message to a destroyed rank is not kept.)
BroadcastRecipients ==
  /\ [](\A r \in Ranks : mpi.net[<<r, r>>] = <<>> /\ ~mpi.node[r].alive_[r])
  /\ [][\A s \in Ranks : \A d \in Ranks \ {s} :
          LET m == mpi'.net[<<s, d>>][Len(mpi'.net[<<s, d>>])]
              to == { i \in Ranks : mpi'.net[<<s, i>>] = Append(mpi.net[<<s, i>>], m) }
              there == { i \in Ranks : mpi.node[i].up \/ i \in mpi.unborn }
          IN mpi'.net[<<s, d>>] # <<>> /\ mpi'.net[<<s, d>>] = Append(mpi.net[<<s, d>>], m)
             => /\ (\/ m.tag \in {"invalidated", "inserted", "change_key"}
                    \/ m.tag = "request" /\ mpi'.ops # mpi.ops)
                   => to = { i \in there : mpi.node[s].alive_[i] }
                /\ m.tag = "alive" /\ mpi'.node[s].up # mpi.node[s].up
                   => to = there \ {s}]_vars

\* Rank Owner has announced an insert to rank 0, which it marks alive, while
\* rank 2 is not built yet and has only the alive(true) of the constructor
\* of rank Owner waiting for it.
BroadcastRecipientsWitness ==
  /\ 2 \in mpi.unborn /\ mpi.node[0].up /\ mpi.node[Owner].up
  /\ mpi.node[Owner].alive_[0]
  /\ mpi.net[<<Owner, 0>>] # <<>>
  /\ mpi.net[<<Owner, 0>>][Len(mpi.net[<<Owner, 0>>])].tag = "inserted"
  /\ Len(mpi.net[<<Owner, 2>>]) = 1
  /\ mpi.net[<<Owner, 2>>][1].tag = "alive" /\ mpi.net[<<Owner, 2>>][1].flag

\* C32: a rank that no longer holds the key when it receives request_data
\* answers response_data with valid = false and keeps its archive as it was;
\* the get_response that got valid = false returns without storing anything
\* on the requester: its load returns 0, its pull stores nothing.
FetchRacedWithRemove ==
  [][\A r \in Ranks :
       /\ \A s \in Ranks :
            (/\ mpi.node[r].up /\ mpi'.node[r].up /\ mpi.node[s].up
             /\ mpi.net[<<s, r>>] # <<>>
             /\ Head(mpi.net[<<s, r>>]).tag = "request_data"
             /\ ~is_available(mpi.node[r].S, Head(mpi.net[<<s, r>>]).key)
             /\ mpi'.net[<<s, r>>] = Tail(mpi.net[<<s, r>>]))
            => /\ mpi'.net[<<r, s>>] =
                    Append(mpi.net[<<r, s>>],
                           Msg("response_data", Head(mpi.net[<<s, r>>]).key, 0,
                               Head(mpi.net[<<s, r>>]).counter, FALSE, <<>>))
               /\ mpi'.node[r].S = mpi.node[r].S
       /\ (/\ mpi.node[r].stack # <<>>
           /\ Len(mpi'.node[r].stack) < Len(mpi.node[r].stack)
           /\ mpi.node[r].reqs[mpi.node[r].stack[Len(mpi.node[r].stack)].req].valid
                = "false")
          => LET f == mpi.node[r].stack[Len(mpi.node[r].stack)]
             IN /\ mpi'.node[r].S = mpi.node[r].S
                /\ f.kind = "load" => mpi'.res[r].key = f.key /\ mpi'.res[r].ret = 0
                /\ f.kind = "pull" => mpi'.pul[r].key = f.key /\ ~mpi'.pul[r].stored]_vars

\* A rank is inside get_response and has received response_data with
\* valid = false from the rank that had answered that it holds the key.
FetchRacedWithRemoveWitness ==
  \E r \in Ranks :
    /\ mpi.node[r].up /\ mpi.node[r].stack # <<>>
    /\ LET f == mpi.node[r].stack[Len(mpi.node[r].stack)]
       IN /\ f.phase = 2 /\ mpi.node[r].reqs[f.req].valid = "false"
          /\ mpi.node[f.src].up /\ ~is_available(mpi.node[f.src].S, f.key)
          /\ ~is_available(mpi.node[r].S, f.key)

\* C33: when a load is satisfied with the bytes another rank sent, the
\* loading rank returns those bytes, holds the key with those bytes
\* afterwards, so that a local load delivers them, and sends nothing; the
\* rank that answers request_data keeps the key and its bytes and sends
\* nothing but the response_data.
RemoteLoadCopies ==
  [][\A r \in Ranks :
       /\ (/\ mpi.node[r].stack # <<>>
           /\ Len(mpi'.node[r].stack) < Len(mpi.node[r].stack)
           /\ mpi.node[r].stack[Len(mpi.node[r].stack)].kind = "load"
           /\ mpi.node[r].reqs[mpi.node[r].stack[Len(mpi.node[r].stack)].req].valid
                = "true")
          => LET f == mpi.node[r].stack[Len(mpi.node[r].stack)]
                 q == mpi.node[r].reqs[f.req]
             IN /\ mpi'.node[r].S.status = "ok"
                /\ mpi'.res[r].ret = Len(q.data) /\ mpi'.res[r].data = q.data
                /\ is_available(mpi'.node[r].S, f.key)
                /\ \A keep \in BOOLEAN :
                     \A R \in load_raw(mpi'.node[r].S, f.key, keep) :
                       R.ret = Len(q.data) /\ R.data = q.data
                /\ mpi'.net = mpi.net
       /\ \A s \in Ranks :
            (/\ mpi.node[r].up /\ mpi'.node[r].up /\ mpi.node[s].up
             /\ mpi.net[<<s, r>>] # <<>>
             /\ Head(mpi.net[<<s, r>>]).tag = "request_data"
             /\ is_available(mpi.node[r].S, Head(mpi.net[<<s, r>>]).key)
             /\ mpi'.net[<<s, r>>] = Tail(mpi.net[<<s, r>>]))
            => LET k == Head(mpi.net[<<s, r>>]).key
                   m == mpi'.net[<<r, s>>][Len(mpi'.net[<<r, s>>])]
               IN /\ mpi'.node[r].S.status = "ok"
                  /\ is_available(mpi'.node[r].S, k)
                  /\ Content(mpi'.node[r].S, k) = Content(mpi.node[r].S, k)
                  /\ mpi'.net = [mpi.net EXCEPT ![<<s, r>>] = Tail(@),
                                               ![<<r, s>>] = Append(@, m)]
                  /\ m.tag = "response_data" /\ m.flag
                  /\ m.data = Content(mpi.node[r].S, k)]_vars

\* C34: a call that is not a rebuild only appends to the backing file; an
\* entry that was resident and modified before the call and is not resident
\* after it has its bytes in the bytes the call appended, at its
\* index_in_file, is not modified, and must_rebuild_file_ is set; and after
\* every call each entry that is not resident has its range
\* [index_in_file, index_in_file + size) inside the file, holding the bytes
\* last inserted under its key.
AppendOnlyWriteBack ==
  /\ [](Returned =>
          \A k \in Available :
            objects_[k].data = <<>> =>
              /\ ValidRange(disk[filename_], objects_[k].index_in_file, objects_[k].size)
              /\ inserted[k] # <<>> => Content(Self, k) = inserted[k])
  /\ [][(/\ calls' = calls + 1 /\ status = "ok" /\ status' = "ok"
         /\ last'.op \in {"insert", "load", "remove", "change_key", "unload",
                          "set_buffer_size"})
        => LET f == disk[filename_]
               f2 == disk'[filename_']
           IN /\ Len(f) <= Len(f2) /\ SubSeq(f2, 1, Len(f)) = f
              /\ \A k \in DOMAIN objects_ \cap DOMAIN objects_' :
                   (/\ ~(last'.op \in {"insert", "change_key"}
                         /\ k \in {last'.key, last'.key2})
                    /\ objects_[k].data # <<>> /\ objects_[k].modified
                    /\ objects_'[k].data = <<>>)
                   => /\ objects_'[k].index_in_file >= Len(f)
                      /\ ValidRange(f2, objects_'[k].index_in_file, objects_'[k].size)
                      /\ Content(Self', k) = objects_[k].data
                      /\ ~objects_'[k].modified
                      /\ must_rebuild_file_'
              /\ (last'.op = "insert" /\ objects_'[last'.key].data = <<>>)
                   => /\ objects_'[last'.key].index_in_file >= Len(f)
                      /\ Content(Self', last'.key) = last'.data
                      /\ ~objects_'[last'.key].modified
                      /\ must_rebuild_file_']_vars

\* unload has evicted two modified entries: both keys are available and not
\* resident, each at its own place behind the other in the file.
AppendOnlyWitness ==
  /\ Returned /\ last.op = "unload" /\ must_rebuild_file_
  /\ Available = Keys
  /\ \A k \in Keys : objects_[k].data = <<>> /\ inserted[k] # <<>>
  /\ \E k \in Keys, j \in Keys :
       objects_[j].index_in_file >= objects_[k].index_in_file + objects_[k].size

\* C35: must_rebuild_file_ is set after a remove of a present key, an insert
\* over a present key, a change_key of a present key and a write-back of a
\* modified entry, and only flush, clear, init and the destructor clear it;
\* and whenever must_rebuild_file_ is false and no entry is modified, the
\* header of the backing file names the keys of objects_ with their sizes.
RebuildFlag ==
  /\ [](/\ Returned /\ ~must_rebuild_file_
        /\ \A k \in Available : ~objects_[k].modified
        => LET H == read_file(disk[filename_]).objects
           IN /\ DOMAIN H = Available
              /\ \A k \in Available : H[k].size = objects_[k].size)
  /\ [][(calls' = calls + 1 /\ status = "ok" /\ status' = "ok")
        => /\ (/\ last'.op \in {"remove", "insert", "change_key"}
               /\ is_available(Self, last'.key))
              => must_rebuild_file_'
           /\ (/\ last'.op \in {"insert", "load", "unload", "set_buffer_size"}
               /\ \E k \in DOMAIN objects_ \cap DOMAIN objects_' :
                    /\ objects_[k].modified /\ objects_[k].data # <<>>
                    /\ objects_'[k].data = <<>>)
              => must_rebuild_file_'
           /\ (must_rebuild_file_ /\ ~must_rebuild_file_')
              => last'.op \in {"flush", "clear", "init", "destroy"}]_vars

\* A load has read an entry back from the file a flush has rebuilt: one key
\* is resident and not modified, the other is not resident, and
\* must_rebuild_file_ is false.
RebuildFlagWitness ==
  /\ Returned /\ last.op = "load" /\ ~must_rebuild_file_
  /\ Available = Keys
  /\ \A k \in Keys : ~objects_[k].modified
  /\ \E k \in Keys : objects_[k].data # <<>>

\* C36: at every step of a rebuild the path of the backing file holds the
\* whole file it held when the rebuild began or the whole rebuilt file.
RebuildAtomic ==
  thr.pc # "idle" =>
    \/ disk[filename_] = thr.old
    \/ thr.pc = "copied" /\ disk[filename_] = thr.temp

\* C37: mpi_process() receives messages only from the head of a queue and
\* only those whose tag it has a branch for, one for each probe, and goes on;
\* it returns, changing nothing, only when no message waits or the message
\* at the head of a queue has a tag without a branch; such a message is
\* never taken from its queue.
DispatcherPump ==
  [][\A r \in Ranks :
       mpi'.node[r].up =>
         /\ \A s \in Ranks :
              LET q == mpi.net[<<s, r>>]
                  q2 == mpi'.net[<<s, r>>]
              IN /\ \/ q2 = q
                    \/ q # <<>> /\ q2 = Tail(q)
                    \/ Len(q2) = Len(q) + 1 /\ SubSeq(q2, 1, Len(q)) = q
                 /\ (q # <<>> /\ q2 = Tail(q))
                    => /\ Head(q).tag \in mpi_process_tags
                       /\ mpi.node[r].stack # <<>> /\ mpi'.node[r].stack # <<>>
                       /\ \A t \in Ranks \ {s} : mpi'.net[<<t, r>>] = mpi.net[<<t, r>>]
                 /\ (q # <<>> /\ Head(q).tag \notin mpi_process_tags)
                    => q2 # <<>> /\ Head(q2) = Head(q)
         /\ (mpi.node[r].stack # <<>> /\ mpi'.node[r].stack = <<>>)
            => /\ mpi'.net = mpi.net
               /\ mpi'.node[r].S = mpi.node[r].S
               /\ \/ InboxEmpty(mpi, r)
                  \/ \E s \in Ranks :
                       /\ mpi.net[<<s, r>>] # <<>>
                       /\ Head(mpi.net[<<s, r>>]).tag \notin mpi_process_tags]_vars

\* Rank r has dropped its copy of the key when mpi_process() received the
\* invalidated message of rank s, and has left mpi_process() with a message
\* of another subsystem at the head of the queue from rank s.
DispatcherPumpWitness ==
  \E r \in Ranks, s \in Ranks :
    /\ mpi.node[r].up /\ mpi.node[r].stack = <<>>
    /\ mpi.net[<<s, r>>] # <<>> /\ Head(mpi.net[<<s, r>>]).tag = "other"
    /\ mpi.log.rem.key # 0 /\ mpi.log.rem.by = s /\ r \in mpi.log.rem.held
    /\ ~is_available(mpi.node[r].S, mpi.log.rem.key)

\* C38: the requests a rank has registered are those of the get_response
\* calls it is inside, one each; the return of get_response leaves no entry
\* for its request, so a rank that is inside no load and no pull has none.
RegistryCleanup ==
  /\ [](\A r \in Ranks :
          /\ DOMAIN mpi.node[r].reqs =
               { mpi.node[r].stack[i].req : i \in 1..Len(mpi.node[r].stack) }
          /\ \A i, j \in 1..Len(mpi.node[r].stack) :
               mpi.node[r].stack[i].req = mpi.node[r].stack[j].req => i = j)
  /\ [][\A r \in Ranks :
          Len(mpi'.node[r].stack) < Len(mpi.node[r].stack)
            => mpi.node[r].stack[Len(mpi.node[r].stack)].req
                 \notin DOMAIN mpi'.node[r].reqs]_vars

\* A load that fetched the bytes from another rank has returned, and so has
\* a load that nobody could satisfy, on ranks that are inside no get_response.
RegistryCleanupWitness ==
  \E r \in Ranks, t \in Ranks :
    /\ t # r
    /\ mpi.node[r].up /\ mpi.node[r].stack = <<>>
    /\ mpi.res[r].remote /\ mpi.res[r].ret # 0
    /\ mpi.node[t].up /\ mpi.node[t].stack = <<>>
    /\ mpi.res[t].remote /\ mpi.res[t].key # 0 /\ mpi.res[t].ret = 0

\* C39: a rank that receives a request, request_data, alive or response
\* message keeps its set of available keys and the bytes under every key.
AnsweringReadOnly ==
  [][\A r \in Ranks : \A s \in Ranks :
       (/\ mpi.node[r].up /\ mpi'.node[r].up
        /\ mpi.net[<<s, r>>] # <<>>
        /\ Head(mpi.net[<<s, r>>]).tag \in {"request", "request_data", "alive", "response"}
        /\ mpi'.net[<<s, r>>] = Tail(mpi.net[<<s, r>>]))
       => /\ mpi'.node[r].S.status = "ok"
          /\ DOMAIN mpi'.node[r].S.objects_ = DOMAIN mpi.node[r].S.objects_
          /\ \A k \in Keys : Content(mpi'.node[r].S, k) = Content(mpi.node[r].S, k)
          /\ \A k \in DOMAIN mpi.node[r].S.objects_ :
               mpi'.node[r].S.objects_[k].size = mpi.node[r].S.objects_[k].size]_vars

\* Rank 0, which made no load of its own, has answered request_data with the
\* copy of key 1 it held resident and modified: the copy is written to its
\* file and no longer resident, and rank 2 has loaded the key.
AnsweringReadOnlyWitness ==
  /\ mpi.node[0].up /\ mpi.node[0].stack = <<>> /\ mpi.res[0] = NoRes
  /\ mpi.node[0].S.max_buffer_size_ >= 1
  /\ 1 \in DOMAIN mpi.node[0].S.objects_
  /\ mpi.node[0].S.objects_[1].data = <<>>
  /\ ~mpi.node[0].S.objects_[1].modified
  /\ mpi.res[2].key = 1 /\ mpi.res[2].remote /\ mpi.res[2].ret # 0

\* C40: whenever buffer_size_ > 0, LRU_ is not empty and its back points to
\* an available, resident entry of positive size, and unload(d) returns for
\* every d with buffer_size_ <= d.
EvictionTerminates ==
  (Returned /\ buffer_size_ > 0)
    => /\ LRU_ # <<>>
       /\ LRU_[Len(LRU_)].live
       /\ Resident(Self, LRU_[Len(LRU_)].key)
       /\ objects_[LRU_[Len(LRU_)].key].size > 0
       /\ \A d \in BufSizes : \A R \in unload(Self, d) :
            R.status = "ok" /\ R.buffer_size_ <= d

====
